---------------------------- MODULE Spec2Model ----------------------------
(***************************************************************************)
(* The attraction graph of One-like-away: the in-memory weighted graph of  *)
(* lib/botRunner (src/unnamed/part_002), its batched flush to the          *)
(* `attractions` table, the identity transfer of a promoted demo user and  *)
(* the like / unlike handler of the Post component (src/unnamed/part_003), *)
(* which writes the same table directly.                                   *)
(*                                                                         *)
(* Weights are JavaScript numbers.  The model counts them in units of      *)
(* 1/Unit with Unit a power of two that leaves room for every decay a run  *)
(* can hold: the sums and the products by the dyadic factors used here are *)
(* then exact, as they are in IEEE doubles, and no weight of the model is  *)
(* ever rounded (WeightsExact states it).                                  *)
(***************************************************************************)
EXTENDS Integers, FiniteSets, Sequences, TLC

\* ------------------------------------------------------------------ bounds
\* calls of updateAttraction and of decayAttraction in one run
MaxApplies == 2
MaxDecays == 2
\* upserts of flushAttractionUpdates in flight at once
MaxInflight == 1
\* transfers that move edges in one run
MaxTransfers == 1
\* clicks on the like button in one run
MaxClicks == 2
\* largest whole weight of an edge at the start of a decay-only run
MaxInitWeight == 3
\* posts offered to one ranking
MaxCandidates == 2
\* calls of startBotLoop and firings of its timers in one run
MaxTicks == 2
\* hashtags of a text
MaxTags == 2
\* likes and unlikes the graph page sees
MaxReactions == 4

\* ------------------------------------------------------- program constants
\* decayed < 0.05 (part_002:106): the floor is 1/FloorDen
FloorDen == 20
\* un-liking takes 0.5 = 1/HalfDen off the stored weight (part_003:80)
HalfDen == 2

\* units per 1.0: five fractional bits for every decay a run can hold, so that
\* every product by a factor of Factors is exact
Unit == 32 ^ MaxDecays

\* the ids of the model: one demo session id (`demo-<time>-<rand>`) and one
\* uuid of the users table
DemoIds == {"demo-1"}
RealIds == {"u1"}
Actors == DemoIds \cup RealIds

\* `topic:${canonical}`
Topic(canonical) == <<"topic", canonical>>
Targets == {Topic("tech"), Topic("food")}

\* magnitudes updateAttraction is called with (1.0 per like or post, 2.0 per
\* drifter seed), in whole weights
Deltas == {1, 2}
\* decay factors <<numerator, denominator>>, each in (0,1)
Factors == {<<1, 2>>, <<1, 32>>}

\* the posts of the model and their topic_tags
Posts == {"p1", "p2"}
topic_tags(p) == IF p = "p1" THEN <<"coding">> ELSE <<"#tech">>

VARIABLES attractionGraph, pendingWrites, flushTimeout, attractions, requests,
          transfer, applies, decays, post, clicks

\* the timeouts of scheduleFlush that were set and have neither fired nor been
\* cleared
VARIABLES flushTimers

\* the timers of startBotLoop (armed or not), the drifters it tracks, the
\* users and likes tables, and the asynchronous calls in flight
VARIABLES botInterval, drifterSpawnInterval, drifterLikeInterval, cleanupInterval,
          decayInterval, activeDrifters, users, likes, init, bot, cleanup, spawn,
          like, ticks

\* what the properties need to remember of a run
VARIABLES stopped, purged, dirtyAtStop, dropped

\* an input of getRecommendedPosts and its result
VARIABLES candidates, viewer, ranked

\* the hashtags of a text, what normalizeToCanonical makes of them, and the
\* topic_tags of the posts created from the text
VARIABLES text, normalized, created

\* the graph page: topicsRef, the cluster of each node of nodesRef, and the
\* realtime events on their way to the page
VARIABLES topicsRef, nodes, events

timerVars == <<botInterval, drifterSpawnInterval, drifterLikeInterval,
               cleanupInterval, decayInterval>>
tableVars == <<users, likes>>
taskVars == <<init, bot, cleanup, spawn, like>>
historyVars == <<stopped, purged, dirtyAtStop, dropped>>
rankVars == <<candidates, viewer, ranked>>
loopVars == <<timerVars, activeDrifters, tableVars, taskVars, ticks, historyVars>>
\* an upsert of a flush has failed (remembered for the properties); and the
\* timers of window that are alive, for each task of startBotLoop: timeouts set
\* and not yet fired or cleared, intervals set and not cleared
VARIABLES flushFailed, timers
\* a cycle of the drifter like loop, and a call of runBot, that started while
\* the one before it was in flight
VARIABLES like2, bot2

tagVars == <<text, normalized, created>>
pageVars == <<topicsRef, nodes, events>>
raceVars == <<like2, bot2>>
lastVars == <<flushFailed, timers, raceVars>>
moreVars == <<tagVars, pageVars, lastVars>>
extraVars == <<loopVars, rankVars, moreVars>>

vars == <<attractionGraph, pendingWrites, flushTimeout, flushTimers, attractions,
          requests,
          transfer, applies, decays, post, clicks, extraVars>>

storeVars == <<attractionGraph, pendingWrites, flushTimeout, flushTimers>>

\* ------------------------------------------------------------ Map helpers
EmptyMap == [x \in {} |-> 0]
MapSet(m, k, v) == [x \in (DOMAIN m) \cup {k} |-> IF x = k THEN v ELSE m[x]]
MapDelete(m, k) == [x \in (DOMAIN m) \ {k} |-> m[x]]
\* map.get(k) || 0
GetOr0(m, k) == IF k \in DOMAIN m THEN m[k] ELSE 0
Range(seq) == {seq[i] : i \in DOMAIN seq}

\* isDemoUser that takes every id for a stored user
isDemoUserNever(userId) == FALSE
\* userId.startsWith('demo-')
isDemoUser(userId) == userId \in DemoIds

\* attractionGraph.get(userId) || new Map()
SnapshotOf(graph, userId) == IF userId \in DOMAIN graph THEN graph[userId] ELSE EmptyMap
getUserAttractions(userId) == SnapshotOf(attractionGraph, userId)

\* String.prototype.toLowerCase, for the hashtags of the model
toLowerCase(t) ==
    CASE t = "Tech" -> "tech"
      [] t = "AI" -> "ai"
      [] t = "Pizza" -> "pizza"
      [] OTHER -> t

\* the object literal `map` of normalizeToCanonical
SynonymTable ==
    [fitness |-> "fitness", workout |-> "fitness", gains |-> "fitness", gym |-> "fitness",
     motivation |-> "fitness", mealprep |-> "fitness", health |-> "fitness",
     protein |-> "fitness",
     tech |-> "tech", ai |-> "tech", coding |-> "tech", programming |-> "tech",
     innovation |-> "tech", automation |-> "tech", developers |-> "tech",
     devlife |-> "tech",
     crypto |-> "crypto", bitcoin |-> "crypto", blockchain |-> "crypto",
     defi |-> "crypto", hodl |-> "crypto", investing |-> "crypto",
     politics |-> "politics", progressive |-> "politics", conservative |-> "politics",
     justice |-> "politics", equality |-> "politics", healthcare |-> "politics",
     change |-> "politics", reform |-> "politics", workers |-> "politics",
     values |-> "politics", freedom |-> "politics", family |-> "politics",
     tradition |-> "politics", liberty |-> "politics",
     climate |-> "climate", environment |-> "climate", sustainability |-> "climate",
     green |-> "climate", action |-> "climate", activism |-> "climate",
     gaming |-> "gaming", esports |-> "gaming", streaming |-> "gaming",
     games |-> "gaming", streamer |-> "gaming", pc |-> "gaming",
     battlestation |-> "gaming",
     food |-> "food", cooking |-> "food", recipe |-> "food", foodie |-> "food",
     chef |-> "food", italian |-> "food", baking |-> "food", recipes |-> "food",
     wellness |-> "wellness", meditation |-> "wellness", mindfulness |-> "wellness",
     peace |-> "wellness", selfcare |-> "wellness", zen |-> "wellness",
     conspiracy |-> "conspiracy", truth |-> "conspiracy", wakeup |-> "conspiracy",
     question |-> "conspiracy", research |-> "conspiracy", aware |-> "conspiracy",
     skeptic |-> "conspiracy"]

\* what `map[key]` finds for a key the literal does not have: a member that the
\* object inherits from Object.prototype (here the function Object, written as
\* a template literal prints it), or undefined
ObjectFunction == "function Object() { [native code] }"
InheritedKeys == {"constructor"}

\* map[topic.toLowerCase()] || topic.toLowerCase()
normalizeToCanonical(topic) ==
    LET key == toLowerCase(topic)
    IN  IF key \in DOMAIN SynonymTable THEN SynonymTable[key]
        ELSE IF key \in InheritedKeys THEN ObjectFunction
        ELSE key

\* tag.replace(/^#/, '')
StripHash(tag) ==
    CASE tag = "#tech" -> "tech"
      [] tag = "#food" -> "food"
      [] OTHER -> tag

\* ---------------------------------------------------- the attractions table
\* rows of (source_id, target_id, weight); updated_at is written and never read
Row(s, t, w) == [source_id |-> s, target_id |-> t, weight |-> w]
RowKey(r) == <<r.source_id, r.target_id>>

\* supabase.from('attractions').upsert(batch): INSERT .. ON CONFLICT (source_id,
\* target_id) DO UPDATE, each row carrying the absolute weight
\* an upsert that adds the weight sent to the weight stored
UpsertAdding(table, batch) ==
    {r \in table : \A b \in batch : RowKey(b) # RowKey(r)} \cup
    {Row(b.source_id, b.target_id,
         b.weight + (IF \E r \in table : RowKey(r) = RowKey(b)
                     THEN (CHOOSE r \in table : RowKey(r) = RowKey(b)).weight
                     ELSE 0)) : b \in batch}
Upsert(table, batch) ==
    {r \in table : \A b \in batch : RowKey(b) # RowKey(r)} \cup batch

\* .select('target_id, weight').eq('source_id', s).in('target_id', ts)
Select(table, s, ts) == {r \in table : r.source_id = s /\ r.target_id \in ts}

\* .delete().eq('source_id', s).in('target_id', ts)
Delete(table, s, ts) == {r \in table : ~(r.source_id = s /\ r.target_id \in ts)}

\* ------------------------------------------------------------------- store
\* the batch flushAttractionUpdates builds from pendingWrites
FlushBatch(pending) ==
    {Row(k[1], k[2], pending[k]) : k \in {k \in DOMAIN pending : ~isDemoUser(k[1])}}

\* weight * factor, and decayed < 0.05
Decayed(weight, factor) == (weight * factor[1]) \div factor[2]
\* a floor test that only drops weights that reached 0
UnderFloorZero(weight, factor) == weight * factor[1] <= 0
UnderFloor(weight, factor) == weight * factor[1] * FloorDen < Unit * factor[2]

\* the profile of an agent after the loop of decayAttraction
DecayedProfile(profile, factor) ==
    [t \in {t \in DOMAIN profile : ~UnderFloor(profile[t], factor)} |->
        Decayed(profile[t], factor)]

\* pendingWrites after the loop of decayAttraction for a real agent
DecayedPending(pending, agentId, profile, factor) ==
    LET kept == {t \in DOMAIN profile : ~UnderFloor(profile[t], factor)}
        keys == ((DOMAIN pending) \ {<<agentId, t>> : t \in DOMAIN profile})
                    \cup {<<agentId, t>> : t \in kept}
    IN  [k \in keys |-> IF k[1] = agentId /\ k[2] \in kept
                        THEN Decayed(profile[k[2]], factor)
                        ELSE pending[k]]

Idle == [pc |-> "idle", old |-> "none", new |-> "none", error |-> FALSE, n |-> 0]
PostIdle(liked) == [pc |-> "idle", isLiked |-> liked, rows |-> {}, toDelete |-> {},
                    last |-> "none"]

\* no loop started and nothing in flight
NoTask == [pc |-> "idle"]
LoopInit ==
    /\ botInterval = FALSE
    /\ drifterSpawnInterval = FALSE
    /\ drifterLikeInterval = FALSE
    /\ cleanupInterval = FALSE
    /\ decayInterval = FALSE
    /\ activeDrifters = {}
    /\ users = EmptyMap
    /\ likes = {}
    /\ init = NoTask
    /\ bot = NoTask
    /\ cleanup = NoTask
    /\ spawn = NoTask
    /\ like = NoTask
    /\ ticks = 0
    /\ stopped = FALSE
    /\ purged = {}
    /\ dirtyAtStop = EmptyMap
    /\ dropped = FALSE

\* nothing ranked
NotRanked == [done |-> FALSE, attraction |-> EmptyMap, out |-> <<>>]
RankInit ==
    /\ candidates = <<>>
    /\ viewer = "none"
    /\ ranked = NotRanked

\* no text was normalised or posted
TagInit ==
    /\ text = <<>>
    /\ normalized = <<>>
    /\ created = {}

\* the graph page is not mounted
PageInit ==
    /\ topicsRef = EmptyMap
    /\ nodes = EmptyMap
    /\ events = {}

\* the tasks of startBotLoop
Tasks == {"bot", "cleanup", "spawn", "like", "decay"}
NoTimers == [t \in Tasks |-> 0]
\* one timer for every task: the loop runs
AllTimers == [t \in Tasks |-> 1]

\* nothing failed, no timer is set
LastInit ==
    /\ flushFailed = FALSE
    /\ timers = NoTimers
    /\ like2 = NoTask
    /\ bot2 = NoTask

MoreInit == TagInit /\ PageInit /\ LastInit
ExtraInit == LoopInit /\ RankInit /\ MoreInit

Init ==
    /\ attractionGraph = EmptyMap
    /\ pendingWrites = EmptyMap
    /\ flushTimeout = FALSE
    /\ flushTimers = 0
    /\ attractions = {}
    /\ requests = {}
    /\ transfer = Idle
    /\ applies = 0
    /\ decays = 0
    /\ post = [p \in Posts |-> PostIdle(FALSE)]
    /\ clicks = 0
    /\ ExtraInit

\* the timeouts alive after a step that may have called scheduleFlush()
TimersAfter == IF flushTimeout' /\ ~flushTimeout THEN flushTimers + 1 ELSE flushTimers

\* scheduleFlush() setting a timeout although one is set
scheduleFlushUnguarded ==
    /\ flushTimeout' = TRUE
    /\ flushTimers' = flushTimers + 1

\* scheduleFlush(): if (flushTimeout) return; flushTimeout = setTimeout(...)
scheduleFlush ==
    /\ flushTimeout' = TRUE
    /\ flushTimers' = IF flushTimeout THEN flushTimers ELSE flushTimers + 1

\* updateAttraction storing the delta instead of adding it to the edge
updateAttractionOverwrite(sourceId, targetId, delta) ==
    LET targets == getUserAttractions(sourceId)
        newWeight == delta * Unit
    IN  /\ applies < MaxApplies
        /\ applies' = applies + 1
        /\ attractionGraph' = MapSet(attractionGraph, sourceId,
                                     MapSet(targets, targetId, newWeight))
        /\ IF ~isDemoUser(sourceId)
           THEN /\ pendingWrites' = MapSet(pendingWrites, <<sourceId, targetId>>, newWeight)
                /\ scheduleFlush
           ELSE UNCHANGED <<pendingWrites, flushTimeout, flushTimers>>
        /\ UNCHANGED <<extraVars, attractions, requests, transfer, decays, post, clicks>>

\* updateAttraction(sourceId, targetId, delta)
updateAttraction(sourceId, targetId, delta) ==
    LET targets == getUserAttractions(sourceId)
        newWeight == GetOr0(targets, targetId) + delta * Unit
    IN  /\ applies < MaxApplies
        /\ applies' = applies + 1
        /\ attractionGraph' = MapSet(attractionGraph, sourceId,
                                     MapSet(targets, targetId, newWeight))
        /\ IF ~isDemoUser(sourceId)
           THEN /\ pendingWrites' = MapSet(pendingWrites, <<sourceId, targetId>>, newWeight)
                /\ scheduleFlush
           ELSE UNCHANGED <<pendingWrites, flushTimeout, flushTimers>>
        /\ UNCHANGED <<extraVars, attractions, requests, transfer, decays, post, clicks>>

\* the body of decayAttraction(agentId, factor)
DecayStep(agentId, factor) ==
    IF agentId \notin DOMAIN attractionGraph
    THEN UNCHANGED storeVars
    ELSE LET profile == attractionGraph[agentId]
         IN  /\ attractionGraph' = MapSet(attractionGraph, agentId,
                                          DecayedProfile(profile, factor))
             /\ IF ~isDemoUser(agentId)
                THEN /\ pendingWrites' =
                           DecayedPending(pendingWrites, agentId, profile, factor)
                     /\ scheduleFlush
                ELSE UNCHANGED <<pendingWrites, flushTimeout, flushTimers>>

\* decayAttraction(agentId, factor), one of the MaxDecays calls of a run
decayAttraction(agentId, factor) ==
    /\ decays < MaxDecays
    /\ decays' = decays + 1
    /\ DecayStep(agentId, factor)
    /\ UNCHANGED <<extraVars, attractions, requests, transfer, applies, post, clicks>>

\* the flush timer of scheduleFlush fires: flushAttractionUpdates up to its await
flushAttractionUpdates ==
    /\ flushTimeout
    /\ Cardinality({q \in requests : q.by = "flush"}) < MaxInflight
    /\ flushTimeout' = FALSE
    /\ flushTimers' = flushTimers - 1
    /\ IF DOMAIN pendingWrites = {}
       THEN UNCHANGED <<pendingWrites, requests>>
       ELSE /\ pendingWrites' = EmptyMap
            /\ requests' = IF FlushBatch(pendingWrites) = {} THEN requests
                           ELSE requests \cup
                                  {[by |-> "flush", rows |-> FlushBatch(pendingWrites)]}
    /\ UNCHANGED <<extraVars, attractionGraph, attractions, transfer, applies, decays, post, clicks>>

\* the table serves an upsert in flight; ok = FALSE is a failed request
DbUpsert(q, ok) ==
    /\ q \in requests
    /\ requests' = requests \ {q}
    /\ attractions' = IF ok THEN Upsert(attractions, q.rows) ELSE attractions
    /\ transfer' = IF q.by = "transfer"
                   THEN [transfer EXCEPT !.pc = "responded", !.error = ~ok]
                   ELSE transfer
    /\ flushFailed' = (flushFailed \/ (q.by = "flush" /\ ~ok))
    /\ UNCHANGED <<loopVars, rankVars, tagVars, pageVars, timers, raceVars, storeVars, applies,
                   decays, post, clicks>>

\* transferDemoAttractions without the early return for an empty source
transferDemoAttractionsUnchecked(demoUserId, realUserId) ==
    LET demoAttractions == getUserAttractions(demoUserId)
    IN  /\ transfer.pc \in {"idle", "done", "noop"}
        /\ transfer.n < MaxTransfers
        /\ attractionGraph' = MapSet(attractionGraph, realUserId, demoAttractions)
        /\ requests' = requests \cup
              {[by |-> "transfer",
                rows |-> {Row(realUserId, t, demoAttractions[t]) :
                            t \in DOMAIN demoAttractions}]}
        /\ transfer' = [transfer EXCEPT !.pc = "awaiting", !.old = demoUserId,
                                        !.new = realUserId]
        /\ UNCHANGED <<extraVars, pendingWrites, flushTimeout, flushTimers, attractions, applies, decays,
                       post, clicks>>

\* transferDemoAttractions(demoUserId, realUserId) up to its await
transferDemoAttractions(demoUserId, realUserId) ==
    LET demoAttractions == getUserAttractions(demoUserId)
    IN  /\ transfer.pc \in {"idle", "done", "noop"}
        /\ IF DOMAIN demoAttractions = {}
           THEN /\ transfer' = [transfer EXCEPT !.pc = "noop", !.old = demoUserId,
                                                !.new = realUserId]
                /\ UNCHANGED <<attractionGraph, requests>>
           ELSE /\ transfer.n < MaxTransfers
                /\ attractionGraph' = MapSet(attractionGraph, realUserId, demoAttractions)
                /\ requests' = requests \cup
                      {[by |-> "transfer",
                        rows |-> {Row(realUserId, t, demoAttractions[t]) :
                                    t \in DOMAIN demoAttractions}]}
                /\ transfer' = [transfer EXCEPT !.pc = "awaiting", !.old = demoUserId,
                                                !.new = realUserId]
        /\ UNCHANGED <<extraVars, pendingWrites, flushTimeout, flushTimers, attractions, applies, decays,
                       post, clicks>>

\* transferDemoAttractions that forgets to clean up the old demo user
transferResumeKeepsOld ==
    /\ transfer.pc = "responded"
    /\ transfer' = [transfer EXCEPT !.pc = "done", !.n = @ + 1]
    /\ UNCHANGED <<extraVars, storeVars, attractions, requests, applies, decays, post, clicks>>

\* transferDemoAttractions after its await: clean up the old demo user
transferResume ==
    /\ transfer.pc = "responded"
    /\ attractionGraph' = MapDelete(attractionGraph, transfer.old)
    /\ transfer' = [transfer EXCEPT !.pc = "done", !.n = @ + 1]
    /\ UNCHANGED <<extraVars, pendingWrites, flushTimeout, flushTimers, attractions, requests, applies,
                   decays, post, clicks>>

\* the store alone: events, decay sweep, flush timer, the table
Next ==
    \/ \E s \in Actors, t \in Targets, d \in Deltas : updateAttraction(s, t, d)
    \/ \E a \in Actors, f \in Factors : decayAttraction(a, f)
    \/ flushAttractionUpdates
    \/ \E q \in requests, ok \in BOOLEAN : DbUpsert(q, ok)

Spec == Init /\ [][Next]_vars

\* the store with the identity transfer of a promoted demo user
NextTransfer ==
    \/ \E s \in Actors, t \in Targets, d \in Deltas : updateAttraction(s, t, d)
    \/ \E a \in Actors, f \in Factors : decayAttraction(a, f)
    \/ \E o \in DemoIds, n \in RealIds : transferDemoAttractions(o, n)
    \/ \E q \in requests, ok \in BOOLEAN : DbUpsert(q, ok)
    \/ transferResume

SpecTransfer == Init /\ [][NextTransfer]_vars

\* ------------------------------------------------- Post.handleLike (part_003)
\* the session user of the Post components: a user with a uuid, for whom
\* promoteToRealUser returns true at once and no transfer is called
SessionUser == "u1"

\* post.topic_tags.map(tag => `topic:${normalizeToCanonical(tag.replace(/^#/, ''))}`)
attractionRecords(p) ==
    {Topic(normalizeToCanonical(StripHash(tag))) : tag \in Range(topic_tags(p))}

\* existingWeights.get(target_id) || 0
ExistingWeight(existing, t) ==
    IF \E r \in existing : r.target_id = t
    THEN (CHOOSE r \in existing : r.target_id = t).weight
    ELSE 0

\* upsertData of the like branch: weight read + 1.0
LikeRows(existing, p) ==
    {Row(SessionUser, t, ExistingWeight(existing, t) + Unit) : t \in attractionRecords(p)}

\* toUpdate of the unlike branch: Math.max(0, weight - 0.5), kept when > 0
UnlikeRows(existing) ==
    {r \in {Row(SessionUser, e.target_id,
                IF e.weight - Unit \div HalfDen > 0
                THEN e.weight - Unit \div HalfDen ELSE 0) : e \in existing} :
        r.weight > 0}

\* toDelete of the unlike branch: the targets read with weight <= 0.5
UnlikeDeletes(existing) ==
    {e.target_id : e \in {e \in existing : e.weight <= Unit \div HalfDen}}

\* handleLike up to its first read of attractions: the click, and the insert
\* into (or delete from) likes, which succeeds (ok) or returns an error
handleLike(p, ok) ==
    /\ clicks < MaxClicks
    /\ post[p].pc = "idle"
    /\ clicks' = clicks + 1
    /\ post' = [post EXCEPT ![p] =
                   IF ok
                   THEN [@ EXCEPT !.pc = "select", !.isLiked = ~@, !.last = "none"]
                   ELSE [@ EXCEPT !.last = "failed"]]
    /\ UNCHANGED <<extraVars, storeVars, attractions, requests, transfer, applies, decays>>

\* the select of the current weights returns; the handler builds its writes
handleLikeSelect(p) ==
    LET existing == Select(attractions, SessionUser, attractionRecords(p))
    IN  /\ post[p].pc = "select"
        /\ post' = [post EXCEPT ![p] =
              IF post[p].isLiked
              THEN [@ EXCEPT !.pc = "upsert", !.rows = LikeRows(existing, p)]
              ELSE IF existing = {}
                   THEN [@ EXCEPT !.pc = "idle", !.last = "unliked"]
                   ELSE [@ EXCEPT !.pc = IF UnlikeRows(existing) # {}
                                         THEN "upsert" ELSE "delete",
                                  !.rows = UnlikeRows(existing),
                                  !.toDelete = UnlikeDeletes(existing)]]
        /\ UNCHANGED <<extraVars, storeVars, attractions, requests, transfer, applies, decays,
                       clicks>>

\* the upsert of the handler is served (ok) or fails; its result is not read
handleLikeUpsert(p, ok) ==
    /\ post[p].pc = "upsert"
    /\ attractions' = IF ok THEN Upsert(attractions, post[p].rows) ELSE attractions
    /\ post' = [post EXCEPT ![p] =
              IF post[p].toDelete # {}
              THEN [@ EXCEPT !.pc = "delete", !.rows = {}]
              ELSE [@ EXCEPT !.pc = "idle", !.rows = {},
                             !.last = IF ~ok THEN "failed"
                                      ELSE IF post[p].isLiked THEN "liked"
                                      ELSE "unliked"]]
    /\ UNCHANGED <<extraVars, storeVars, requests, transfer, applies, decays, clicks>>

\* the delete of the unlike branch is served (ok) or fails
handleLikeDelete(p, ok) ==
    /\ post[p].pc = "delete"
    /\ attractions' = IF ok THEN Delete(attractions, SessionUser, post[p].toDelete)
                      ELSE attractions
    /\ post' = [post EXCEPT ![p] = [@ EXCEPT !.pc = "idle", !.toDelete = {},
                                            !.last = IF ok THEN "unliked" ELSE "failed"]]
    /\ UNCHANGED <<extraVars, storeVars, requests, transfer, applies, decays, clicks>>

\* a feed of two posts, liked or not when it is rendered (post.is_liked)
InitLike ==
    /\ attractionGraph = EmptyMap
    /\ pendingWrites = EmptyMap
    /\ flushTimeout = FALSE
    /\ flushTimers = 0
    /\ attractions = {}
    /\ requests = {}
    /\ transfer = Idle
    /\ applies = 0
    /\ decays = 0
    /\ post \in [Posts -> {PostIdle(TRUE), PostIdle(FALSE)}]
    /\ clicks = 0
    /\ ExtraInit

\* the like handler beside the store of the session user
NextLike ==
    \/ \E d \in Deltas : updateAttraction(SessionUser, Topic("tech"), d)
    \/ \E f \in Factors : decayAttraction(SessionUser, f)
    \/ flushAttractionUpdates
    \/ \E q \in requests, ok \in BOOLEAN : DbUpsert(q, ok)
    \/ \E p \in Posts, ok \in BOOLEAN : handleLike(p, ok)
    \/ \E p \in Posts : handleLikeSelect(p)
    \/ \E p \in Posts, ok \in BOOLEAN : handleLikeUpsert(p, ok)
    \/ \E p \in Posts, ok \in BOOLEAN : handleLikeDelete(p, ok)

SpecLike == InitLike /\ [][NextLike]_vars

\* the page and the loop of one tab: what a timer starts fires and what was
\* sent returns; the clicks and the updates are up to the user
FeedFairness ==
    /\ WF_vars(flushAttractionUpdates)
    /\ WF_vars(\E q \in requests, ok \in BOOLEAN : DbUpsert(q, ok))
    /\ WF_vars(\E p \in Posts : handleLikeSelect(p))
    /\ WF_vars(\E p \in Posts, ok \in BOOLEAN : handleLikeUpsert(p, ok))
    /\ WF_vars(\E p \in Posts, ok \in BOOLEAN : handleLikeDelete(p, ok))

SpecFeed == InitLike /\ [][NextLike]_vars /\ FeedFairness

\* --------------------------------------------- the decay sweep left to itself
\* profiles of whole weights, as updateAttraction calls alone leave them
InitProfiles ==
    UNION {[T -> {k * Unit : k \in 1..MaxInitWeight}] : T \in (SUBSET Targets) \ {{}}}

\* a graph after some events and a flush: every actor unknown or with edges
InitDecay ==
    /\ \E known \in SUBSET Actors : attractionGraph \in [known -> InitProfiles]
    /\ pendingWrites = EmptyMap
    /\ flushTimeout = FALSE
    /\ flushTimers = 0
    /\ attractions = {}
    /\ requests = {}
    /\ transfer = Idle
    /\ applies = 0
    /\ decays = 0
    /\ post = [p \in Posts |-> PostIdle(FALSE)]
    /\ clicks = 0
    /\ ExtraInit

\* every product of the decay is a whole number of units
ExactDecay(agentId, factor) ==
    \A t \in DOMAIN getUserAttractions(agentId) :
        UnderFloor(attractionGraph[agentId][t], factor)
        \/ (attractionGraph[agentId][t] * factor[1]) % factor[2] = 0

\* decayAttraction(agentId, factor) called by the sweep of startBotLoop, any
\* number of times
decaySweep(agentId, factor) ==
    /\ ExactDecay(agentId, factor)
    /\ DecayStep(agentId, factor)
    /\ UNCHANGED <<extraVars, attractions, requests, transfer, applies, decays, post, clicks>>

NextDecay == \E a \in Actors, f \in Factors : decaySweep(a, f)

\* the sweep is a setInterval over every agent of the graph: it keeps running
SpecDecay ==
    /\ InitDecay
    /\ [][NextDecay]_vars
    /\ \A a \in Actors : WF_vars(\E f \in Factors : decaySweep(a, f))

\* ------------------------------------------- getRecommendedPosts (part_002)
\* posts offered to the ranking, newest first: id, topic_tags, user_id
FeedPost(id, tags, author) == [id |-> id, topic_tags |-> tags, user_id |-> author]
FeedPosts ==
    {FeedPost("q1", <<"tech">>, "b1"),
     FeedPost("q2", <<"food">>, "b1"),
     FeedPost("q3", <<"coding", "cooking">>, "b1"),
     FeedPost("q4", <<>>, "b1"),
     FeedPost("q5", <<"tech">>, "u1")}

Min(a, b) == IF a < b THEN a ELSE b
Max(a, b) == IF a > b THEN a ELSE b

RECURSIVE GCD(_, _)
GCD(a, b) == IF b = 0 THEN a ELSE GCD(b, a % b)

\* folds over the values of a profile
RECURSIVE GcdOfValues(_, _, _)
GcdOfValues(profile, keys, acc) ==
    IF keys = {} THEN acc
    ELSE LET k == CHOOSE k \in keys : TRUE
         IN  GcdOfValues(profile, keys \ {k}, GCD(acc, profile[k]))

RECURSIVE SumOfValues(_, _)
SumOfValues(profile, keys) ==
    IF keys = {} THEN 0
    ELSE LET k == CHOOSE k \in keys : TRUE
         IN  profile[k] + SumOfValues(profile, keys \ {k})

RECURSIVE MaxOfValues(_, _, _)
MaxOfValues(profile, keys, acc) ==
    IF keys = {} THEN acc
    ELSE LET k == CHOOSE k \in keys : TRUE
         IN  MaxOfValues(profile, keys \ {k}, Max(acc, profile[k]))

\* The ranking only uses ratios of weights, so it is computed on the weights
\* divided by their common divisor: RankOne is the weight 1.0 on that scale.
RankScale(attraction) == GcdOfValues(attraction, DOMAIN attraction, Unit)
RankOne(attraction) == Unit \div RankScale(attraction)
Scaled(attraction) ==
    [t \in DOMAIN attraction |-> attraction[t] \div RankScale(attraction)]

\* the largest value without the lower bound of 1
maxAttractionNoFloor(attraction) ==
    LET sc == Scaled(attraction)
    IN  MaxOfValues(sc, {t \in DOMAIN sc : sc[t] > 0}, 0)

\* Math.max(...values.filter(v => v > 0), 1)
maxAttraction(attraction) ==
    LET sc == Scaled(attraction)
    IN  MaxOfValues(sc, {t \in DOMAIN sc : sc[t] > 0}, RankOne(attraction))
\* values.reduce((a, b) => a + b, 0)
totalAttraction(attraction) == SumOfValues(Scaled(attraction), DOMAIN attraction)

\* echoStrength = Math.min(totalAttraction / 3, 1), as EchoNum / EchoDen
EchoDen(attraction) == 3 * RankOne(attraction)
EchoNum(attraction) == Min(totalAttraction(attraction), EchoDen(attraction))

\* Math.max(tags.length, 1)
TagCount(p) == Max(Len(p.topic_tags), 1)
RECURSIVE TagMul(_)
TagMul(posts) == IF posts = <<>> THEN 1 ELSE TagCount(Head(posts)) * TagMul(Tail(posts))

\* Affinities are exact fractions; all of one ranking are counted in units of
\* 1 / AffinityDen, a common denominator of 0.6, 0.4, 0.15, 0.1, 0.5,
\* echoStrength and every score / maxPossible of the ranking.
AffinityDen(posts, attraction) ==
    20 * EchoDen(attraction) * maxAttraction(attraction) * TagMul(posts)

\* the loop over the tags of a post: score and hasMatchingTag
attractionWeight(attraction, tag) ==
    GetOr0(Scaled(attraction), Topic(normalizeToCanonical(tag)))
RECURSIVE Score(_, _)
Score(attraction, tags) ==
    IF tags = <<>> THEN 0
    ELSE attractionWeight(attraction, Head(tags)) + Score(attraction, Tail(tags))
hasMatchingTag(attraction, tags) ==
    \E i \in DOMAIN tags : attractionWeight(attraction, tags[i]) > 0

\* a baseVisibility without its lower bound: 0.5 * (1 - echoStrength)
baseVisibilityNoFloor(posts, attraction) ==
    (AffinityDen(posts, attraction) \div (2 * EchoDen(attraction)))
        * (EchoDen(attraction) - EchoNum(attraction))
\* Math.max(0.1, 0.5 * (1 - echoStrength))
baseVisibility(posts, attraction) ==
    Max(AffinityDen(posts, attraction) \div 10,
        (AffinityDen(posts, attraction) \div (2 * EchoDen(attraction)))
            * (EchoDen(attraction) - EchoNum(attraction)))

\* Math.min(1, 0.6 + (score / maxPossible) * 0.4 + echoStrength * 0.15)
MatchAffinity(posts, attraction, p) ==
    LET den == AffinityDen(posts, attraction)
        maxPossible == maxAttraction(attraction) * TagCount(p)
    IN  Min(den,
            (den \div 5) * 3
            + (den \div (5 * maxPossible)) * 2 * Score(attraction, p.topic_tags)
            + (den \div (20 * EchoDen(attraction))) * 3 * EchoNum(attraction))

Scored(posts, attraction, p) ==
    [id |-> p.id, topic_tags |-> p.topic_tags,
     affinity |-> IF ~hasMatchingTag(attraction, p.topic_tags)
                  THEN baseVisibility(posts, attraction)
                  ELSE MatchAffinity(posts, attraction, p)]

\* an insertion that puts an item before the items of its own affinity
RECURSIVE InsertByAffinityUnstable(_, _)
InsertByAffinityUnstable(sorted, x) ==
    IF sorted = <<>> THEN <<x>>
    ELSE IF Head(sorted).affinity <= x.affinity THEN <<x>> \o sorted
    ELSE <<Head(sorted)>> \o InsertByAffinityUnstable(Tail(sorted), x)
\* Array.prototype.sort((a, b) => b.affinity - a.affinity): stable, descending
RECURSIVE InsertByAffinity(_, _)
InsertByAffinity(sorted, x) ==
    IF sorted = <<>> THEN <<x>>
    ELSE IF Head(sorted).affinity < x.affinity THEN <<x>> \o sorted
    ELSE <<Head(sorted)>> \o InsertByAffinity(Tail(sorted), x)
RECURSIVE SortByAffinity(_, _)
SortByAffinity(rest, sorted) ==
    IF rest = <<>> THEN sorted
    ELSE SortByAffinity(Tail(rest), InsertByAffinity(sorted, Head(rest)))

\* a filter that keeps the posts of the agent
NotOwnKeepsAll(posts, agentId) == posts
\* posts.filter(p => p.user_id !== agentId)
NotOwn(posts, agentId) == SelectSeq(posts, LAMBDA p : p.user_id # agentId)

\* getRecommendedPosts that scores the candidates of an empty profile too
getRecommendedPostsNoColdStart(graph, posts, agentId) ==
    LET cands == NotOwn(posts, agentId)
        attraction == SnapshotOf(graph, agentId)
    IN  SortByAffinity([i \in DOMAIN cands |-> Scored(cands, attraction, cands[i])],
                       <<>>)

\* getRecommendedPosts(posts, agentId) on a graph
getRecommendedPosts(graph, posts, agentId) ==
    LET cands == NotOwn(posts, agentId)
        attraction == SnapshotOf(graph, agentId)
    IN  IF DOMAIN attraction = {}
        THEN [i \in DOMAIN cands |->
                 [id |-> cands[i].id, topic_tags |-> cands[i].topic_tags,
                  affinity |-> AffinityDen(cands, attraction)]]
        ELSE SortByAffinity(
                 [i \in DOMAIN cands |-> Scored(cands, attraction, cands[i])], <<>>)

\* lists of distinct posts of FeedPosts, at most MaxCandidates long
FeedLists ==
    UNION {{q \in [1..n -> FeedPosts] : \A i, j \in 1..n : i # j => q[i] # q[j]} :
              n \in 0..MaxCandidates}

\* weights a profile can hold when a ranking is asked for: 2.0 decayed by 1/32,
\* one like, a seeded bot
RankWeights == {Unit \div 16, Unit, 5 * Unit}
\* the targets of such a profile: topics, and a target that is no topic (a row
\* of the table can hold any target_id)
RankTargets == Targets \cup {<<"user", "b1">>}
RankProfiles == UNION {[T -> RankWeights] : T \in (SUBSET RankTargets) \ {{}}}

InitRank ==
    /\ \E known \in SUBSET RealIds : attractionGraph \in [known -> RankProfiles]
    /\ pendingWrites = EmptyMap
    /\ flushTimeout = FALSE
    /\ flushTimers = 0
    /\ attractions = {}
    /\ requests = {}
    /\ transfer = Idle
    /\ applies = 0
    /\ decays = 0
    /\ post = [p \in Posts |-> PostIdle(FALSE)]
    /\ clicks = 0
    /\ LoopInit
    /\ candidates \in FeedLists
    /\ viewer \in RealIds
    /\ ranked = NotRanked
    /\ MoreInit

\* a feed asks for getRecommendedPosts(candidates, viewer)
rank ==
    /\ ranked' = [done |-> TRUE,
                  attraction |-> getUserAttractions(viewer),
                  out |-> getRecommendedPosts(attractionGraph, candidates, viewer)]
    /\ UNCHANGED <<storeVars, attractions, requests, transfer, applies, decays, post,
                   clicks, loopVars, candidates, viewer, moreVars>>

NextRank ==
    \/ rank
    \/ \E f \in Factors : decaySweep(viewer, f)

SpecRank == InitRank /\ [][NextRank]_vars

\* ------------------------------------- the graph as the bot loop updates it
\* the permanent bots of the users table and their personas (BOT_PERSONAS):
\* hashtags, and the hashtags of the template the bot posts
BotIds == {"b1"}
hashtags(botId) == IF botId = "b2" THEN <<"food">> ELSE <<"tech">>
templateTags(botId) == IF botId = "b2" THEN <<"cooking", "italian">> ELSE <<"ai", "tech">>
\* drifters: users with an expires_at, "live" until it passes, then "expired"
DrifterIds == {"d1"}
\* DRIFTER_SEED_CLUSTERS, for the topics of the model
SeedClusters == {"tech", "food"}
\* posts, newest first, as the selects of the loop return them; the first has
\* the topic_tags that ComposePost stores for a text with #ai and #tech
recentPosts ==
    <<FeedPost("r1", <<"ai", "tech">>, "u1"), FeedPost("r2", <<"food">>, "u1")>>

\* the graph and the dirty set, as one value the updates of a step run through
Store == [graph |-> attractionGraph, pending |-> pendingWrites]

\* updateAttraction(sourceId, targetId, delta) on such a value
Applied(st, sourceId, targetId, delta) ==
    LET targets == SnapshotOf(st.graph, sourceId)
        newWeight == GetOr0(targets, targetId) + delta * Unit
    IN  [graph |-> MapSet(st.graph, sourceId, MapSet(targets, targetId, newWeight)),
         pending |-> IF ~isDemoUser(sourceId)
                     THEN MapSet(st.pending, <<sourceId, targetId>>, newWeight)
                     ELSE st.pending]

\* one updateAttraction per tag of a list, normalised as the caller does
RECURSIVE AppliedTags(_, _, _, _)
AppliedTags(st, sourceId, tags, delta) ==
    IF tags = <<>> THEN st
    ELSE AppliedTags(Applied(st, sourceId, Topic(Head(tags)), delta),
                     sourceId, Tail(tags), delta)

\* tags.map(tag => normalizeToCanonical(tag.replace(/^#/, '')))
Canonical(tags) == [i \in DOMAIN tags |-> normalizeToCanonical(StripHash(tags[i]))]

\* the topic_tags of the post a like row points to
TagsOfPost(postId) ==
    LET known == FeedPosts \cup Range(recentPosts)
    IN  IF \E p \in known : p.id = postId
        THEN (CHOOSE p \in known : p.id = postId).topic_tags
        ELSE <<>>

\* scheduleFlush() after updates of a source that is not a demo user
Scheduled(armed, sources) == armed \/ \E s \in sources : ~isDemoUser(s)

\* ------------------------------------- initializeAttractionGraph (part_002)
\* attractions.forEach(a => attractionGraph.get(a.source_id).set(a.target_id,
\* a.weight)) on the graph as it is when the select returns
Loaded(graph, rows) ==
    [s \in (DOMAIN graph) \cup {r.source_id : r \in rows} |->
        [t \in (DOMAIN SnapshotOf(graph, s))
                 \cup {r.target_id : r \in {x \in rows : x.source_id = s}} |->
            IF \E r \in rows : RowKey(r) = <<s, t>>
            THEN (CHOOSE r \in rows : RowKey(r) = <<s, t>>).weight
            ELSE graph[s][t]]]

\* the fallback: updateAttraction(like.user_id, topic, 1.0) for every tag of
\* the post of every like
RECURSIVE SeededFromLikes(_, _)
SeededFromLikes(st, rows) ==
    IF rows = {} THEN st
    ELSE LET l == CHOOSE l \in rows : TRUE
         IN  SeededFromLikes(
                 AppliedTags(st, l[1], Canonical(TagsOfPost(l[2])), 1),
                 rows \ {l})

\* updateAttraction(bot.id, `topic:${tag}`, 3.0) for every bot with a persona
\* and no edge
RECURSIVE SeededBots(_, _)
SeededBots(st, bots) ==
    IF bots = {} THEN st
    ELSE LET b == CHOOSE b \in bots : TRUE
             needsSeed == DOMAIN SnapshotOf(st.graph, b) = {}
         IN  SeededBots(IF needsSeed THEN AppliedTags(st, b, hashtags(b), 3) ELSE st,
                        bots \ {b})

\* initializeAttractionGraph(): the graph is cleared, the select is sent
initializeCleared ==
    /\ attractionGraph' = EmptyMap
    /\ init' = [pc |-> "attractions", rows |-> {}]

\* a call of initializeAttractionGraph on its own
initializeAttractionGraph ==
    /\ init.pc \in {"idle", "done"}
    /\ initializeCleared
    /\ UNCHANGED <<pendingWrites, flushTimeout, flushTimers, attractions, requests, transfer,
                   applies, decays, post, clicks, timerVars, activeDrifters,
                   tableVars, bot, cleanup, spawn, like, ticks, historyVars,
                   rankVars, moreVars>>

\* the select of attractions returns (ok) or fails: rows are installed, or the
\* likes are asked for
initializeLoaded(ok) ==
    LET rows == IF ok THEN attractions ELSE {}
    IN  /\ init.pc = "attractions"
        /\ attractionGraph' = Loaded(attractionGraph, rows)
        /\ init' = [pc |-> IF rows # {} THEN "users" ELSE "likes",
                    rows |-> rows, ok |-> ok]
        /\ UNCHANGED <<pendingWrites, flushTimeout, flushTimers, attractions, requests, transfer,
                       applies, decays, post, clicks, timerVars, activeDrifters,
                       tableVars, bot, cleanup, spawn, like, ticks, historyVars,
                       rankVars, moreVars>>

\* the select of likes returns: one updateAttraction per tag of a liked post
initializeSeedLikes ==
    LET st == SeededFromLikes(Store, likes)
    IN  /\ init.pc = "likes"
        /\ attractionGraph' = st.graph
        /\ pendingWrites' = st.pending
        /\ flushTimeout' = Scheduled(flushTimeout,
                                     {l[1] : l \in {x \in likes : TagsOfPost(x[2]) # <<>>}})
        /\ flushTimers' = TimersAfter
        /\ init' = [init EXCEPT !.pc = "users"]
        /\ UNCHANGED <<attractions, requests, transfer, applies, decays, post, clicks,
                       timerVars, activeDrifters, tableVars, bot, cleanup, spawn,
                       like, ticks, historyVars, rankVars, moreVars>>

\* the select of the permanent bots returns: bots without edges are seeded
initializeSeedBots ==
    LET st == SeededBots(Store, BotIds)
    IN  /\ init.pc = "users"
        /\ attractionGraph' = st.graph
        /\ pendingWrites' = st.pending
        /\ flushTimeout' = Scheduled(flushTimeout,
                              {b \in BotIds : DOMAIN getUserAttractions(b) = {}})
        /\ flushTimers' = TimersAfter
        /\ init' = [init EXCEPT !.pc = "drifters"]
        /\ UNCHANGED <<attractions, requests, transfer, applies, decays, post, clicks,
                       timerVars, activeDrifters, tableVars, bot, cleanup, spawn,
                       like, ticks, historyVars, rankVars, moreVars>>

\* the select of the live drifters returns: they are tracked
initializeTrackDrifters ==
    /\ init.pc = "drifters"
    /\ activeDrifters' = activeDrifters \cup {d \in DOMAIN users : users[d] = "live"}
    /\ init' = [init EXCEPT !.pc = "done"]
    /\ UNCHANGED <<storeVars, attractions, requests, transfer, applies, decays, post,
                   clicks, timerVars, tableVars, bot, cleanup, spawn, like, ticks,
                   historyVars, rankVars, moreVars>>

\* the tables and the graph a (re)load can find: rows written by flushes and
\* likes, likes of the session user, edges left from before a hot reload
LoadRows ==
    {Row(s, t, w * Unit) : s \in RealIds \cup BotIds, t \in {Topic("tech")}, w \in {1, 3}}
LoadTables == {rows \in SUBSET LoadRows : \A a, b \in rows : RowKey(a) = RowKey(b) => a = b}
LoadLikes == SUBSET {<<"u1", "q1">>, <<"u1", "q4">>}
LoadGraphs == {EmptyMap, [x \in {"u1"} |-> [t \in {Topic("food")} |-> Unit]]}

InitLoad ==
    /\ attractionGraph \in LoadGraphs
    /\ pendingWrites = EmptyMap
    /\ flushTimeout = FALSE
    /\ flushTimers = 0
    /\ attractions \in LoadTables
    /\ requests = {}
    /\ transfer = Idle
    /\ applies = 0
    /\ decays = 0
    /\ post = [p \in Posts |-> PostIdle(FALSE)]
    /\ clicks = 0
    /\ botInterval = FALSE
    /\ drifterSpawnInterval = FALSE
    /\ drifterLikeInterval = FALSE
    /\ cleanupInterval = FALSE
    /\ decayInterval = FALSE
    /\ activeDrifters = {}
    /\ users \in [DrifterIds -> {"live", "expired"}] \cup {EmptyMap}
    /\ likes \in LoadLikes
    /\ init = NoTask
    /\ bot = NoTask
    /\ cleanup = NoTask
    /\ spawn = NoTask
    /\ like = NoTask
    /\ ticks = 0
    /\ stopped = FALSE
    /\ purged = {}
    /\ dirtyAtStop = EmptyMap
    /\ dropped = FALSE
    /\ RankInit
    /\ MoreInit

NextLoad ==
    \/ initializeAttractionGraph
    \/ \E ok \in BOOLEAN : initializeLoaded(ok)
    \/ initializeSeedLikes
    \/ initializeSeedBots
    \/ initializeTrackDrifters
    \/ flushAttractionUpdates
    \/ \E q \in requests, ok \in BOOLEAN : DbUpsert(q, ok)

SpecLoad == InitLoad /\ [][NextLoad]_vars

\* ----------------------------------------- startBotLoop and what it starts
TasksIdle ==
    /\ init.pc \in {"idle", "done"}
    /\ bot.pc = "idle"
    /\ cleanup.pc = "idle"
    /\ spawn.pc = "idle"
    /\ like.pc = "idle"

\* a return of runBot that sets no timeout
scheduleNextSkipped == UNCHANGED <<botInterval, timers>>

\* scheduleNext(): botInterval = window.setTimeout(..., delay)
scheduleNext ==
    /\ botInterval' = TRUE
    /\ timers' = [timers EXCEPT !.bot = @ + 1]

\* startBotLoop(): nothing is awaited; the load, the first runBot, a cleanup and
\* a spawn are in flight when it returns, and four intervals are armed
startBotLoop ==
    /\ ~botInterval
    /\ TasksIdle
    /\ ticks < MaxTicks
    /\ ticks' = ticks + 1
    /\ initializeCleared
    /\ bot' = [pc |-> "bots", before |-> [graph |-> EmptyMap, pending |-> pendingWrites]]
    /\ cleanup' = [pc |-> "delete"]
    /\ cleanupInterval' = TRUE
    /\ spawn' = [pc |-> "select"]
    /\ drifterSpawnInterval' = TRUE
    /\ drifterLikeInterval' = TRUE
    /\ decayInterval' = TRUE
    /\ stopped' = FALSE
    /\ timers' = [t \in Tasks |-> IF t = "bot" THEN timers[t] ELSE timers[t] + 1]
    /\ UNCHANGED <<pendingWrites, flushTimeout, flushTimers, attractions, requests,
                   transfer, applies, decays, post, clicks, botInterval, activeDrifters,
                   tableVars, like, purged, dirtyAtStop, dropped, rankVars, tagVars,
                   pageVars, flushFailed, raceVars>>

\* startBotLoop() called again while the runBot of the call before it has not
\* returned: botInterval is set by scheduleNext only, so both guards pass, and
\* the load, runBot, the cleanup, the spawn and the four intervals start again
startBotLoopAgain ==
    /\ ~botInterval
    /\ bot.pc # "idle"
    /\ bot2.pc = "idle"
    /\ init.pc \in {"idle", "done"}
    /\ cleanup.pc = "idle"
    /\ spawn.pc = "idle"
    /\ ticks < MaxTicks
    /\ ticks' = ticks + 1
    /\ initializeCleared
    /\ bot2' = [pc |-> "bots", before |-> [graph |-> EmptyMap, pending |-> pendingWrites]]
    /\ cleanup' = [pc |-> "delete"]
    /\ cleanupInterval' = TRUE
    /\ spawn' = [pc |-> "select"]
    /\ drifterSpawnInterval' = TRUE
    /\ drifterLikeInterval' = TRUE
    /\ decayInterval' = TRUE
    /\ stopped' = FALSE
    /\ timers' = [t \in Tasks |-> IF t = "bot" THEN timers[t] ELSE timers[t] + 1]
    /\ UNCHANGED <<pendingWrites, flushTimeout, flushTimers, attractions, requests,
                   transfer, applies, decays, post, clicks, botInterval, activeDrifters,
                   tableVars, bot, like, purged, dirtyAtStop, dropped, rankVars, tagVars,
                   pageVars, flushFailed, like2>>

\* the timeout of scheduleNext fires: runBot is called
botTimer ==
    /\ botInterval
    /\ timers.bot > 0
    /\ bot.pc = "idle"
    /\ ticks < MaxTicks
    /\ ticks' = ticks + 1
    /\ bot' = [pc |-> "bots", before |-> Store]
    /\ timers' = [timers EXCEPT !.bot = @ - 1]
    /\ UNCHANGED <<storeVars, attractions, requests, transfer, applies, decays, post,
                   clicks, timerVars, activeDrifters, tableVars, init, cleanup,
                   spawn, like, historyVars, rankVars, tagVars, pageVars, flushFailed, raceVars>>

\* !botProfile || persona.hashtags.some(tag => !botProfile.has(`topic:${tag}`))
needsSeeding(graph, botId) ==
    \/ botId \notin DOMAIN graph
    \/ \E i \in DOMAIN hashtags(botId) : Topic(hashtags(botId)[i]) \notin DOMAIN graph[botId]

\* runBot: the select of the bots returns; with a bot, its anchors are seeded
\* when missing and the post is sent.  Every return of runBot is followed by
\* scheduleNext, which arms botInterval.
runBotSelected(ok) ==
    LET botId == CHOOSE b \in BotIds : TRUE
        seed == needsSeeding(attractionGraph, botId)
        st == IF seed THEN AppliedTags(Store, botId, hashtags(botId), 5) ELSE Store
    IN  /\ bot.pc = "bots"
        /\ IF ok
           THEN /\ attractionGraph' = st.graph
                /\ pendingWrites' = st.pending
                /\ flushTimeout' = (flushTimeout \/ seed)
                /\ flushTimers' = TimersAfter
                /\ bot' = [bot EXCEPT !.pc = "insert"]
                /\ UNCHANGED <<botInterval, timers>>
           ELSE /\ bot' = NoTask
                /\ scheduleNext
                /\ UNCHANGED storeVars
        /\ UNCHANGED <<attractions, requests, transfer, applies, decays, post, clicks,
                       drifterSpawnInterval, drifterLikeInterval, cleanupInterval,
                       decayInterval, activeDrifters, tableVars, init, cleanup,
                       spawn, like, ticks, historyVars, rankVars,
                       tagVars, pageVars, flushFailed, raceVars>>

\* runBot: the insert of the post returns; on an error runBot returns false,
\* otherwise the topics of the post are reinforced
runBotInserted(ok) ==
    LET botId == CHOOSE b \in BotIds : TRUE
        st == AppliedTags(Store, botId, Canonical(templateTags(botId)), 1)
    IN  /\ bot.pc = "insert"
        /\ IF ok
           THEN /\ attractionGraph' = st.graph
                /\ pendingWrites' = st.pending
                /\ scheduleFlush
                /\ bot' = [bot EXCEPT !.pc = "like"]
                /\ UNCHANGED <<botInterval, timers, dropped>>
           ELSE /\ bot' = NoTask
                /\ scheduleNext
                /\ dropped' = TRUE
                /\ UNCHANGED storeVars
        /\ UNCHANGED <<attractions, requests, transfer, applies, decays, post, clicks,
                       drifterSpawnInterval, drifterLikeInterval, cleanupInterval,
                       decayInterval, activeDrifters, tableVars, init, cleanup,
                       spawn, like, ticks, stopped, purged, dirtyAtStop,
                       rankVars, tagVars, pageVars, flushFailed, raceVars>>

\* recommended posts an agent has not liked yet
NotLiked(out, agentId) == SelectSeq(out, LAMBDA r : <<agentId, r.id>> \notin likes)

\* runBot: the bot likes its best recommended post of affinity > 0.3, if any
runBotLiked ==
    LET botId == CHOOSE b \in BotIds : TRUE
        cands == NotOwn(recentPosts, botId)
        den == AffinityDen(cands, getUserAttractions(botId))
        recommended ==
            SelectSeq(NotLiked(getRecommendedPosts(attractionGraph, recentPosts, botId),
                               botId),
                      LAMBDA r : 10 * r.affinity > 3 * den)
    IN  /\ bot.pc = "like"
        /\ likes' = IF recommended # <<>>
                    THEN likes \cup {<<botId, recommended[1].id>>}
                    ELSE likes
        /\ bot' = NoTask
        /\ scheduleNext
        /\ UNCHANGED <<storeVars, attractions, requests, transfer, applies, decays,
                       post, clicks, drifterSpawnInterval, drifterLikeInterval,
                       cleanupInterval, decayInterval, activeDrifters, users, init,
                       cleanup, spawn, like, ticks, historyVars, rankVars,
                       tagVars, pageVars, flushFailed, raceVars>>

\* runBot of a second call of startBotLoop: the select of the bots returns
runBotSelected2(ok) ==
    LET botId == CHOOSE b \in BotIds : TRUE
        seed == needsSeeding(attractionGraph, botId)
        st == IF seed THEN AppliedTags(Store, botId, hashtags(botId), 5) ELSE Store
    IN  /\ bot2.pc = "bots"
        /\ IF ok
           THEN /\ attractionGraph' = st.graph
                /\ pendingWrites' = st.pending
                /\ flushTimeout' = (flushTimeout \/ seed)
                /\ flushTimers' = TimersAfter
                /\ bot2' = [bot2 EXCEPT !.pc = "insert"]
                /\ UNCHANGED <<botInterval, timers>>
           ELSE /\ bot2' = NoTask
                /\ scheduleNext
                /\ UNCHANGED storeVars
        /\ UNCHANGED <<attractions, requests, transfer, applies, decays, post, clicks,
                       drifterSpawnInterval, drifterLikeInterval, cleanupInterval,
                       decayInterval, activeDrifters, tableVars, init, cleanup,
                       spawn, like, ticks, historyVars, rankVars,
                       tagVars, pageVars, flushFailed, bot, like2>>

\* runBot of a second call of startBotLoop: the insert of the post returns
runBotInserted2(ok) ==
    LET botId == CHOOSE b \in BotIds : TRUE
        st == AppliedTags(Store, botId, Canonical(templateTags(botId)), 1)
    IN  /\ bot2.pc = "insert"
        /\ IF ok
           THEN /\ attractionGraph' = st.graph
                /\ pendingWrites' = st.pending
                /\ scheduleFlush
                /\ bot2' = [bot2 EXCEPT !.pc = "like"]
                /\ UNCHANGED <<botInterval, timers, dropped>>
           ELSE /\ bot2' = NoTask
                /\ scheduleNext
                /\ dropped' = TRUE
                /\ UNCHANGED storeVars
        /\ UNCHANGED <<attractions, requests, transfer, applies, decays, post, clicks,
                       drifterSpawnInterval, drifterLikeInterval, cleanupInterval,
                       decayInterval, activeDrifters, tableVars, init, cleanup,
                       spawn, like, ticks, stopped, purged, dirtyAtStop,
                       rankVars, tagVars, pageVars, flushFailed, bot, like2>>

\* runBot of a second call of startBotLoop: the like of the bot is sent
runBotLiked2 ==
    LET botId == CHOOSE b \in BotIds : TRUE
        cands == NotOwn(recentPosts, botId)
        den == AffinityDen(cands, getUserAttractions(botId))
        recommended ==
            SelectSeq(NotLiked(getRecommendedPosts(attractionGraph, recentPosts, botId),
                               botId),
                      LAMBDA r : 10 * r.affinity > 3 * den)
    IN  /\ bot2.pc = "like"
        /\ likes' = IF recommended # <<>>
                    THEN likes \cup {<<botId, recommended[1].id>>}
                    ELSE likes
        /\ bot2' = NoTask
        /\ scheduleNext
        /\ UNCHANGED <<storeVars, attractions, requests, transfer, applies, decays,
                       post, clicks, drifterSpawnInterval, drifterLikeInterval,
                       cleanupInterval, decayInterval, activeDrifters, users, init,
                       cleanup, spawn, like, ticks, historyVars, rankVars,
                       tagVars, pageVars, flushFailed, bot, like2>>

\* the expires_at of a live drifter passes
expire(d) ==
    /\ d \in DOMAIN users
    /\ users[d] = "live"
    /\ users' = [users EXCEPT ![d] = "expired"]
    /\ UNCHANGED <<storeVars, attractions, requests, transfer, applies, decays, post,
                   clicks, timerVars, activeDrifters, likes, taskVars, ticks,
                   historyVars, rankVars, moreVars>>

\* the interval of cleanupExpiredDrifters fires
cleanupTick ==
    /\ cleanupInterval
    /\ cleanup.pc = "idle"
    /\ ticks < MaxTicks
    /\ ticks' = ticks + 1
    /\ cleanup' = [pc |-> "delete"]
    /\ UNCHANGED <<storeVars, attractions, requests, transfer, applies, decays, post,
                   clicks, timerVars, activeDrifters, tableVars, init, bot, spawn,
                   like, historyVars, rankVars, moreVars>>

\* cleanupExpiredDrifters: the delete of the expired users returns; the rows of
\* likes and attractions of a deleted user go with it (ON DELETE CASCADE)
cleanupExpiredDrifters(ok) ==
    LET deleted == IF ok THEN {d \in DOMAIN users : users[d] = "expired"} ELSE {}
    IN  /\ cleanup.pc = "delete"
        /\ cleanup' = NoTask
        /\ users' = [d \in (DOMAIN users) \ deleted |-> users[d]]
        /\ likes' = {l \in likes : l[1] \notin deleted}
        /\ attractions' = {r \in attractions : r.source_id \notin deleted}
        /\ activeDrifters' = activeDrifters \ deleted
        /\ attractionGraph' = [a \in (DOMAIN attractionGraph) \ deleted |->
                                  attractionGraph[a]]
        /\ purged' = purged \cup deleted
        /\ UNCHANGED <<pendingWrites, flushTimeout, flushTimers, requests, transfer, applies,
                       decays, post, clicks, timerVars, init, bot, spawn, like,
                       ticks, stopped, dirtyAtStop, dropped, rankVars, moreVars>>

\* the interval of spawnDrifters fires
spawnTick ==
    /\ drifterSpawnInterval
    /\ spawn.pc = "idle"
    /\ ticks < MaxTicks
    /\ ticks' = ticks + 1
    /\ spawn' = [pc |-> "select"]
    /\ UNCHANGED <<storeVars, attractions, requests, transfer, applies, decays, post,
                   clicks, timerVars, activeDrifters, tableVars, init, bot, cleanup,
                   like, historyVars, rankVars, moreVars>>

\* ids the users table can still give to a new drifter
FreshDrifters == {d \in DrifterIds : d \notin DOMAIN users /\ d \notin purged}

\* spawnDrifters: the select of the live drifters returns; activeDrifters is
\* replaced by them and, under the cap, a drifter is inserted
spawnDriftersSelected ==
    /\ spawn.pc = "select"
    /\ activeDrifters' = {d \in DOMAIN users : users[d] = "live"}
    /\ spawn' = IF FreshDrifters # {} THEN [pc |-> "insert"] ELSE NoTask
    /\ UNCHANGED <<storeVars, attractions, requests, transfer, applies, decays, post,
                   clicks, timerVars, tableVars, init, bot, cleanup, like, ticks,
                   historyVars, rankVars, moreVars>>

\* spawnDrifters: the insert returns; the new drifter is tracked, seeded with
\* 2.0 toward one cluster and likes the posts tagged with it
spawnDriftersInserted(ok, seedTopic) ==
    LET d == CHOOSE d \in FreshDrifters : TRUE
        st == Applied(Store, d, Topic(seedTopic), 2)
    IN  /\ spawn.pc = "insert"
        /\ FreshDrifters # {}
        /\ spawn' = NoTask
        /\ IF ok
           THEN /\ users' = MapSet(users, d, "live")
                /\ activeDrifters' = activeDrifters \cup {d}
                /\ attractionGraph' = st.graph
                /\ pendingWrites' = st.pending
                /\ scheduleFlush
                /\ likes' = likes \cup
                      {<<d, recentPosts[i].id>> :
                          i \in {j \in DOMAIN recentPosts :
                                    seedTopic \in Range(recentPosts[j].topic_tags)}}
           ELSE UNCHANGED <<users, activeDrifters, storeVars, likes>>
        /\ UNCHANGED <<attractions, requests, transfer, applies, decays, post, clicks,
                       timerVars, init, bot, cleanup, like, ticks, historyVars,
                       rankVars, moreVars>>

\* the interval of the drifter like loop fires for a tracked drifter
drifterLikeTick(drifterId) ==
    /\ drifterLikeInterval
    /\ like.pc = "idle"
    /\ drifterId \in activeDrifters
    /\ ticks < MaxTicks
    /\ ticks' = ticks + 1
    /\ like' = [pc |-> "posts", drifterId |-> drifterId, chosen |-> "none",
                error |-> FALSE, before |-> Store]
    /\ UNCHANGED <<storeVars, attractions, requests, transfer, applies, decays, post,
                   clicks, timerVars, activeDrifters, tableVars, init, bot, cleanup,
                   spawn, historyVars, rankVars, moreVars>>

\* runDrifterLike: the selects return; the best post not liked yet is chosen
\* and its like is sent, or the call returns
runDrifterLikeSelected ==
    LET recommended ==
            NotLiked(getRecommendedPosts(attractionGraph, recentPosts, like.drifterId),
                     like.drifterId)
    IN  /\ like.pc = "posts"
        /\ like' = IF recommended = <<>>
                   THEN [like EXCEPT !.pc = "decay"]
                   ELSE [like EXCEPT !.pc = "upsert", !.chosen = recommended[1].id]
        /\ UNCHANGED <<storeVars, attractions, requests, transfer, applies, decays,
                       post, clicks, timerVars, activeDrifters, tableVars, init, bot,
                       cleanup, spawn, ticks, historyVars, rankVars, moreVars>>

\* UNIQUE(user_id, post_id) of the likes table: the upsert of runDrifterLike
\* names no conflict target and sends no id, so it is an insert, and the table
\* refuses it when it holds a like of the user for the post
likesUniqueDropped(agentId, postId) == TRUE
likesUnique(agentId, postId) == <<agentId, postId>> \notin likes

\* runDrifterLike: the upsert of the like returns; without an error the topics
\* of the post get +1.0.  The like of a deleted user cannot be stored.
runDrifterLikeUpserted(ok) ==
    LET st == AppliedTags(Store, like.drifterId, Canonical(TagsOfPost(like.chosen)), 1)
    IN  /\ like.pc = "upsert"
        /\ ok => like.drifterId \in DOMAIN users
        /\ ok => likesUnique(like.drifterId, like.chosen)
        /\ like' = [like EXCEPT !.pc = "decay", !.error = ~ok]
        /\ IF ok
           THEN /\ likes' = likes \cup {<<like.drifterId, like.chosen>>}
                /\ attractionGraph' = st.graph
                /\ pendingWrites' = st.pending
                /\ scheduleFlush
                /\ UNCHANGED dropped
           ELSE /\ dropped' = TRUE
                /\ UNCHANGED <<likes, storeVars>>
        /\ UNCHANGED <<attractions, requests, transfer, applies, decays, post, clicks,
                       timerVars, activeDrifters, users, init, bot, cleanup, spawn,
                       ticks, stopped, purged, dirtyAtStop, rankVars, moreVars>>

\* the like loop after runDrifterLike: decayAttraction(drifterId, 0.99)
drifterLikeDecay(factor) ==
    /\ like.pc = "decay"
    /\ decays < MaxDecays
    /\ decays' = decays + 1
    /\ ExactDecay(like.drifterId, factor)
    /\ DecayStep(like.drifterId, factor)
    /\ like' = NoTask
    /\ UNCHANGED <<attractions, requests, transfer, applies, post, clicks, timerVars,
                   activeDrifters, tableVars, init, bot, cleanup, spawn, ticks,
                   historyVars, rankVars, moreVars>>

\* the interval of the drifter like loop fires for a tracked drifter while the
\* cycle before it is in flight: the callback of setInterval does not wait
drifterLikeTickOverlapping(drifterId) ==
    /\ drifterLikeInterval
    /\ like.pc # "idle"
    /\ like2.pc = "idle"
    /\ drifterId \in activeDrifters
    /\ ticks < MaxTicks
    /\ ticks' = ticks + 1
    /\ like2' = [pc |-> "posts", drifterId |-> drifterId, chosen |-> "none",
                 error |-> FALSE, before |-> Store]
    /\ UNCHANGED <<storeVars, attractions, requests, transfer, applies, decays, post,
                   clicks, timerVars, activeDrifters, tableVars, taskVars, historyVars,
                   rankVars, tagVars, pageVars, flushFailed, timers, bot2>>

\* runDrifterLike of the overlapping cycle: the selects return
runDrifterLikeSelected2 ==
    LET recommended ==
            NotLiked(getRecommendedPosts(attractionGraph, recentPosts, like2.drifterId),
                     like2.drifterId)
    IN  /\ like2.pc = "posts"
        /\ like2' = IF recommended = <<>>
                    THEN [like2 EXCEPT !.pc = "decay"]
                    ELSE [like2 EXCEPT !.pc = "upsert", !.chosen = recommended[1].id]
        /\ UNCHANGED <<storeVars, attractions, requests, transfer, applies, decays,
                       post, clicks, loopVars, rankVars, tagVars, pageVars,
                       flushFailed, timers, bot2>>

\* runDrifterLike of the overlapping cycle: the upsert of the like returns
runDrifterLikeUpserted2(ok) ==
    LET st == AppliedTags(Store, like2.drifterId, Canonical(TagsOfPost(like2.chosen)), 1)
    IN  /\ like2.pc = "upsert"
        /\ ok => like2.drifterId \in DOMAIN users
        /\ ok => likesUnique(like2.drifterId, like2.chosen)
        /\ like2' = [like2 EXCEPT !.pc = "decay", !.error = ~ok]
        /\ IF ok
           THEN /\ likes' = likes \cup {<<like2.drifterId, like2.chosen>>}
                /\ attractionGraph' = st.graph
                /\ pendingWrites' = st.pending
                /\ scheduleFlush
                /\ UNCHANGED dropped
           ELSE /\ dropped' = TRUE
                /\ UNCHANGED <<likes, storeVars>>
        /\ UNCHANGED <<attractions, requests, transfer, applies, decays, post, clicks,
                       timerVars, activeDrifters, users, taskVars, ticks, stopped,
                       purged, dirtyAtStop, rankVars, tagVars, pageVars, flushFailed,
                       timers, bot2>>

\* the overlapping cycle after runDrifterLike: decayAttraction(drifterId, 0.99)
drifterLikeDecay2(factor) ==
    /\ like2.pc = "decay"
    /\ decays < MaxDecays
    /\ decays' = decays + 1
    /\ ExactDecay(like2.drifterId, factor)
    /\ DecayStep(like2.drifterId, factor)
    /\ like2' = NoTask
    /\ UNCHANGED <<attractions, requests, transfer, applies, post, clicks, loopVars,
                   rankVars, tagVars, pageVars, flushFailed, timers, bot2>>

\* the decay interval fires: decayAttraction for every agent of the graph, with
\* one factor for the drifters and one for the others
decayTick(drifterFactor, otherFactor) ==
    LET factorOf(a) == IF a \in activeDrifters THEN drifterFactor ELSE otherFactor
        real == {a \in DOMAIN attractionGraph : ~isDemoUser(a)}
        kept(a) == DOMAIN DecayedProfile(attractionGraph[a], factorOf(a))
        keys == ((DOMAIN pendingWrites) \ {k \in DOMAIN pendingWrites : k[1] \in real})
                    \cup {<<a, t>> : a \in real, t \in Targets}
    IN  /\ decayInterval
        /\ decays < MaxDecays
        /\ ticks < MaxTicks
        /\ \A a \in DOMAIN attractionGraph : ExactDecay(a, factorOf(a))
        /\ decays' = decays + 1
        /\ ticks' = ticks + 1
        /\ attractionGraph' = [a \in DOMAIN attractionGraph |->
                                  DecayedProfile(attractionGraph[a], factorOf(a))]
        /\ pendingWrites' =
              [k \in {k \in keys : k[1] \in real => k[2] \in kept(k[1])} |->
                  IF k[1] \in real
                  THEN DecayedProfile(attractionGraph[k[1]], factorOf(k[1]))[k[2]]
                  ELSE pendingWrites[k]]
        /\ flushTimeout' = (flushTimeout \/ real # {})
        /\ flushTimers' = TimersAfter
        /\ UNCHANGED <<attractions, requests, transfer, applies, post, clicks,
                       timerVars, activeDrifters, tableVars, taskVars, historyVars,
                       rankVars, moreVars>>

\* the variable that holds the id of the timer of a task is set
Recorded(t) ==
    CASE t = "bot" -> botInterval
      [] t = "cleanup" -> cleanupInterval
      [] t = "spawn" -> drifterSpawnInterval
      [] t = "like" -> drifterLikeInterval
      [] OTHER -> decayInterval

\* stopBotLoop(): every timer is cleared, flushAttractionUpdates is called and
\* not awaited, activeDrifters and the graph are cleared
stopBotLoop ==
    /\ decayInterval
    /\ botInterval' = FALSE
    /\ drifterSpawnInterval' = FALSE
    /\ drifterLikeInterval' = FALSE
    /\ cleanupInterval' = FALSE
    /\ decayInterval' = FALSE
    /\ flushTimeout' = FALSE
    /\ flushTimers' = IF flushTimeout THEN flushTimers - 1 ELSE flushTimers
    /\ pendingWrites' = EmptyMap
    /\ requests' = IF FlushBatch(pendingWrites) = {} THEN requests
                   ELSE requests \cup
                          {[by |-> "flush", rows |-> FlushBatch(pendingWrites)]}
    /\ activeDrifters' = {}
    /\ attractionGraph' = EmptyMap
    /\ stopped' = TRUE
    /\ dirtyAtStop' = [k \in DOMAIN pendingWrites |->
                          GetOr0(SnapshotOf(attractionGraph, k[1]), k[2])]
    /\ timers' = [t \in Tasks |-> IF Recorded(t) /\ timers[t] > 0
                                   THEN timers[t] - 1 ELSE timers[t]]
    /\ UNCHANGED <<attractions, transfer, applies, decays, post, clicks, tableVars,
                   taskVars, ticks, purged, dropped, rankVars, tagVars, pageVars,
                   flushFailed, raceVars>>

\* the table serves an upsert of the loop: rows of a deleted user violate the
\* foreign key on source_id and fail the whole batch
loopUpsert(q, ok) ==
    /\ ok => \A r \in q.rows : r.source_id \notin purged
    /\ DbUpsert(q, ok)

\* the loop from its start to its stop: the load, the bot cycle and the
\* flushes.  The selects of the first cleanup and of the first spawn are in
\* flight throughout; their returns are steps of NextDrifter.
NextLoop ==
    \/ startBotLoop
    \/ \E ok \in BOOLEAN : initializeLoaded(ok)
    \/ initializeSeedLikes
    \/ initializeSeedBots
    \/ initializeTrackDrifters
    \/ botTimer
    \/ \E ok \in BOOLEAN : runBotSelected(ok)
    \/ \E ok \in BOOLEAN : runBotInserted(ok)
    \/ runBotLiked
    \/ flushAttractionUpdates
    \/ \E q \in requests, ok \in BOOLEAN : loopUpsert(q, ok)
    \/ stopBotLoop

SpecLoop == Init /\ [][NextLoop]_vars

\* the start of the loop over a table that holds rows of the bots
InitStartup ==
    /\ InitLoad
    /\ attractionGraph = EmptyMap
    /\ users = EmptyMap
    /\ likes = {}
    /\ \A r \in attractions : r.source_id \in BotIds

SpecStartup == InitStartup /\ [][NextLoop]_vars

\* calls of startBotLoop that follow each other before the first flush timer
\* and the first interval fire
NextRestart ==
    \/ startBotLoop
    \/ startBotLoopAgain
    \/ \E ok \in BOOLEAN : initializeLoaded(ok)
    \/ initializeSeedLikes
    \/ initializeSeedBots
    \/ initializeTrackDrifters
    \/ \E ok \in BOOLEAN : cleanupExpiredDrifters(ok)
    \/ spawnDriftersSelected
    \/ \E ok \in BOOLEAN, c \in SeedClusters : spawnDriftersInserted(ok, c)
    \/ \E ok \in BOOLEAN : runBotSelected(ok)
    \/ \E ok \in BOOLEAN : runBotInserted(ok)
    \/ runBotLiked
    \/ \E ok \in BOOLEAN : runBotSelected2(ok)
    \/ \E ok \in BOOLEAN : runBotInserted2(ok)
    \/ runBotLiked2

SpecRestart == Init /\ [][NextRestart]_vars

\* ------------------------------------------- runBot with two personas
\* the permanent bots as the select of runBot returns them, in either order
BotLists == {<<"b1", "b2">>, <<"b2", "b1">>}
\* BOT_PERSONAS[bot.display_name].topics
personaTopics(botId) == IF botId = "b2" THEN <<"food">> ELSE <<"tech">>

\* aggregateInterests of selectWeightedBot: the sum of the weights of every
\* topic over the agents of the graph that are no demo users
aggregateInterests(graph) ==
    LET agents == {a \in DOMAIN graph : ~isDemoUser(a)}
        topics == {t \in UNION {DOMAIN graph[a] : a \in agents} : t[1] = "topic"}
    IN  [t \in topics |-> SumOfValues([a \in agents |-> GetOr0(graph[a], t)], agents)]

\* the weight of a bot: the sum of the interests in the topics of its persona
botWeight(interests, botId) ==
    LET topics == personaTopics(botId)
    IN  SumOfValues([i \in DOMAIN topics |-> GetOr0(interests, Topic(topics[i]))],
                    DOMAIN topics)

\* selectWeightedBot(bots), called at the time now: bots[Date.now() %
\* bots.length] without interests, else the first bot of the stable sort by
\* descending weight
selectWeightedBot(graph, bots, now) ==
    LET interests == aggregateInterests(graph)
        first == CHOOSE i \in DOMAIN bots : \A j \in DOMAIN bots :
                    /\ botWeight(interests, bots[i]) >= botWeight(interests, bots[j])
                    /\ j < i => botWeight(interests, bots[j]) < botWeight(interests, bots[i])
    IN  IF DOMAIN interests = {} THEN bots[(now % Len(bots)) + 1] ELSE bots[first]

\* the timeout of scheduleNext fires, as often as the loop runs
botTimeout ==
    /\ botInterval
    /\ timers.bot > 0
    /\ bot.pc = "idle"
    /\ bot' = [pc |-> "bots", before |-> Store]
    /\ timers' = [timers EXCEPT !.bot = @ - 1]
    /\ UNCHANGED <<storeVars, attractions, requests, transfer, applies, decays, post,
                   clicks, timerVars, activeDrifters, tableVars, init, cleanup,
                   spawn, like, ticks, historyVars, rankVars, tagVars, pageVars,
                   flushFailed, raceVars>>

\* runBot: the select of the bots returns them, or an error; selectWeightedBot
\* picks one, which is seeded with 5.0 per hashtag when it lacks an edge
runBotPicked(ok, bots, now) ==
    LET botId == selectWeightedBot(attractionGraph, bots, now)
        seed == needsSeeding(attractionGraph, botId)
        st == IF seed THEN AppliedTags(Store, botId, hashtags(botId), 5) ELSE Store
    IN  /\ bot.pc = "bots"
        /\ IF ok
           THEN /\ attractionGraph' = st.graph
                /\ pendingWrites' = st.pending
                /\ flushTimeout' = (flushTimeout \/ seed)
                /\ flushTimers' = TimersAfter
                /\ bot' = [pc |-> "insert", before |-> bot.before, botId |-> botId]
                /\ UNCHANGED <<botInterval, timers>>
           ELSE /\ bot' = NoTask
                /\ scheduleNext
                /\ UNCHANGED storeVars
        /\ UNCHANGED <<attractions, requests, transfer, applies, decays, post, clicks,
                       drifterSpawnInterval, drifterLikeInterval, cleanupInterval,
                       decayInterval, activeDrifters, tableVars, init, cleanup,
                       spawn, like, ticks, historyVars, rankVars,
                       tagVars, pageVars, flushFailed, raceVars>>

\* runBot: the insert of the post of the picked bot returns; a stored post
\* reinforces its topics with 1.0 each (one of the MaxApplies posts of a run)
runBotPosted(ok) ==
    LET st == AppliedTags(Store, bot.botId, Canonical(templateTags(bot.botId)), 1)
    IN  /\ bot.pc = "insert"
        /\ "botId" \in DOMAIN bot
        /\ IF ok
           THEN /\ applies < MaxApplies
                /\ applies' = applies + 1
                /\ attractionGraph' = st.graph
                /\ pendingWrites' = st.pending
                /\ scheduleFlush
                /\ bot' = [bot EXCEPT !.pc = "like"]
                /\ UNCHANGED <<botInterval, timers, dropped>>
           ELSE /\ bot' = NoTask
                /\ scheduleNext
                /\ dropped' = TRUE
                /\ UNCHANGED <<storeVars, applies>>
        /\ UNCHANGED <<attractions, requests, transfer, decays, post, clicks,
                       drifterSpawnInterval, drifterLikeInterval, cleanupInterval,
                       decayInterval, activeDrifters, tableVars, init, cleanup,
                       spawn, like, ticks, stopped, purged, dirtyAtStop,
                       rankVars, tagVars, pageVars, flushFailed, raceVars>>

\* runBot: the picked bot likes the best post that passes 0.3, and returns
runBotPersonaLiked ==
    LET botId == bot.botId
        cands == NotOwn(recentPosts, botId)
        den == AffinityDen(cands, getUserAttractions(botId))
        recommended ==
            SelectSeq(NotLiked(getRecommendedPosts(attractionGraph, recentPosts, botId),
                               botId),
                      LAMBDA r : 10 * r.affinity > 3 * den)
    IN  /\ bot.pc = "like"
        /\ "botId" \in DOMAIN bot
        /\ likes' = IF recommended # <<>>
                    THEN likes \cup {<<botId, recommended[1].id>>}
                    ELSE likes
        /\ bot' = NoTask
        /\ scheduleNext
        /\ UNCHANGED <<storeVars, attractions, requests, transfer, applies, decays,
                       post, clicks, drifterSpawnInterval, drifterLikeInterval,
                       cleanupInterval, decayInterval, activeDrifters, users, init,
                       cleanup, spawn, like, ticks, historyVars, rankVars,
                       tagVars, pageVars, flushFailed, raceVars>>

\* the loop as it runs once the load and the first runBot are over, for a
\* graph and the rows of it
RunningDrifters(graph, rows, drifters) ==
    /\ attractionGraph = graph
    /\ pendingWrites = EmptyMap
    /\ flushTimeout = FALSE
    /\ flushTimers = 0
    /\ attractions = rows
    /\ requests = {}
    /\ transfer = Idle
    /\ applies = 0
    /\ decays = 0
    /\ post = [p \in Posts |-> PostIdle(FALSE)]
    /\ clicks = 0
    /\ botInterval = TRUE
    /\ drifterSpawnInterval = TRUE
    /\ drifterLikeInterval = TRUE
    /\ cleanupInterval = TRUE
    /\ decayInterval = TRUE
    /\ activeDrifters = drifters
    /\ users = [d \in drifters |-> "live"]
    /\ likes = {}
    /\ init = [pc |-> "done", rows |-> rows, ok |-> TRUE]
    /\ bot = NoTask
    /\ cleanup = NoTask
    /\ spawn = NoTask
    /\ like = NoTask
    /\ ticks = 0
    /\ stopped = FALSE
    /\ purged = {}
    /\ dirtyAtStop = EmptyMap
    /\ dropped = FALSE
    /\ RankInit
    /\ TagInit
    /\ PageInit
    /\ flushFailed = FALSE
    /\ timers = AllTimers
    /\ like2 = NoTask
    /\ bot2 = NoTask

\* the running loop before a drifter is spawned
RunningLoop(graph, rows) == RunningDrifters(graph, rows, {})

\* the bot has its seed of 3.0 and the row of it
InitDrifter ==
    RunningLoop([b \in BotIds |-> [t \in {Topic("tech")} |-> 3 * Unit]],
                {Row(b, Topic("tech"), 3 * Unit) : b \in BotIds})

\* the drifters of the running loop: spawned, liking, decaying, expiring, purged
NextDrifter ==
    \/ \E d \in DrifterIds : expire(d)
    \/ cleanupTick
    \/ \E ok \in BOOLEAN : cleanupExpiredDrifters(ok)
    \/ spawnTick
    \/ spawnDriftersSelected
    \/ \E ok \in BOOLEAN, c \in SeedClusters : spawnDriftersInserted(ok, c)
    \/ \E d \in DrifterIds : drifterLikeTick(d)
    \/ runDrifterLikeSelected
    \/ \E ok \in BOOLEAN : runDrifterLikeUpserted(ok)
    \/ \E f \in Factors : drifterLikeDecay(f)
    \/ \E fd \in Factors, fo \in Factors : decayTick(fd, fo)
    \/ flushAttractionUpdates
    \/ \E q \in requests, ok \in BOOLEAN : loopUpsert(q, ok)

SpecDrifter == InitDrifter /\ [][NextDrifter]_vars

\* a drifter of the running loop has its seed of 2.0 and the row of it
InitOverlap ==
    RunningDrifters([d \in DrifterIds |-> [t \in {Topic("tech")} |-> 2 * Unit]],
                    {Row(d, Topic("tech"), 2 * Unit) : d \in DrifterIds}, DrifterIds)

\* the like loop of the running loop with cycles that overlap
NextOverlap ==
    \/ \E d \in DrifterIds : drifterLikeTick(d)
    \/ runDrifterLikeSelected
    \/ \E ok \in BOOLEAN : runDrifterLikeUpserted(ok)
    \/ \E f \in Factors : drifterLikeDecay(f)
    \/ \E d \in DrifterIds : drifterLikeTickOverlapping(d)
    \/ runDrifterLikeSelected2
    \/ \E ok \in BOOLEAN : runDrifterLikeUpserted2(ok)
    \/ \E f \in Factors : drifterLikeDecay2(f)
    \/ flushAttractionUpdates
    \/ \E q \in requests, ok \in BOOLEAN : loopUpsert(q, ok)

SpecOverlap == InitOverlap /\ [][NextOverlap]_vars

\* the bot loop of the running loop, started with an empty graph
InitPersonas == RunningLoop(EmptyMap, {})

NextPersonas ==
    \/ botTimeout
    \/ \E ok \in BOOLEAN, bots \in BotLists, now \in 0..1 : runBotPicked(ok, bots, now)
    \/ \E ok \in BOOLEAN : runBotPosted(ok)
    \/ runBotPersonaLiked
    \/ flushAttractionUpdates
    \/ \E q \in requests, ok \in BOOLEAN : loopUpsert(q, ok)

\* the timeout of the loop fires and the requests of runBot return; the
\* select of the bots succeeds again and again, and so does the insert of a
\* post as long as the run has posts left
PersonaFairness ==
    /\ WF_vars(botTimeout)
    /\ SF_vars(\E bots \in BotLists, now \in 0..1 : runBotPicked(TRUE, bots, now))
    /\ WF_vars(\E ok \in BOOLEAN : runBotPosted(ok))
    /\ SF_vars(runBotPosted(TRUE))
    /\ WF_vars(runBotPersonaLiked)
    /\ WF_vars(flushAttractionUpdates)
    /\ WF_vars(\E q \in requests, ok \in BOOLEAN : loopUpsert(q, ok))

SpecPersonas == InitPersonas /\ [][NextPersonas]_vars /\ PersonaFairness

\* the running loop with a bot that has no edge: the select of the bots failed
\* during the load, or decay removed the seed
InitEvent == RunningLoop(EmptyMap, {})

\* the events of the running loop: the posts and likes of the bot, the likes
\* of the drifters
NextEvent ==
    \/ botTimer
    \/ \E ok \in BOOLEAN : runBotSelected(ok)
    \/ \E ok \in BOOLEAN : runBotInserted(ok)
    \/ runBotLiked
    \/ spawnTick
    \/ spawnDriftersSelected
    \/ \E ok \in BOOLEAN, c \in SeedClusters : spawnDriftersInserted(ok, c)
    \/ \E d \in DrifterIds : drifterLikeTick(d)
    \/ runDrifterLikeSelected
    \/ \E ok \in BOOLEAN : runDrifterLikeUpserted(ok)
    \/ \E f \in Factors : drifterLikeDecay(f)
    \/ flushAttractionUpdates
    \/ \E q \in requests, ok \in BOOLEAN : loopUpsert(q, ok)

SpecEvent == InitEvent /\ [][NextEvent]_vars

\* --------------------------------- the topic_tags of a new post (runBot,
\* ComposePost, groq.ts)
\* CANONICAL_TOPICS
CanonicalTopics ==
    {"fitness", "tech", "crypto", "politics", "climate", "gaming", "food",
     "wellness", "conspiracy"}

\* the words that follow a '#' in a text, in their order: content.match(/#\w+/g)
\* with the '#' sliced off
RawTags ==
    {"tech", "Tech", "AI", "coding", "food", "pizza", "Pizza", "constructor", "gym",
     "grindset"}
\* the hashtags of three templates of BOT_PERSONAS
BotTemplates == {<<"ai", "tech">>, <<"gym", "grindset">>, <<"fitness">>}
Texts == UNION {[1..n -> RawTags] : n \in 0..MaxTags} \cup BotTemplates

\* arr.map(f)
RECURSIVE MapSeq(_, _)
MapSeq(f(_), seq) == IF seq = <<>> THEN <<>> ELSE <<f(Head(seq))>> \o MapSeq(f, Tail(seq))
\* [...new Set(arr)]: the first occurrence of every element, in order
RECURSIVE Dedupe(_)
Dedupe(seq) ==
    IF seq = <<>> THEN <<>>
    ELSE LET front == Dedupe(SubSeq(seq, 1, Len(seq) - 1))
             last == seq[Len(seq)]
         IN  IF last \in Range(front) THEN front ELSE Append(front, last)
\* .filter(tag => CANONICAL_TOPICS.includes(tag))
OnlyCanonical(seq) == SelectSeq(seq, LAMBDA t : t \in CanonicalTopics)

\* runBot: hashtagMatches.map(tag => tag.slice(1).toLowerCase())
\*                       .map(tag => normalizeToCanonical(tag))
topicTags(hashtagMatches) ==
    MapSeq(normalizeToCanonical, MapSeq(toLowerCase, hashtagMatches))

\* ComposePost: [...new Set(matches.map(tag => tag.slice(1).toLowerCase()))]
extractHashtags(matches) == Dedupe(MapSeq(toLowerCase, matches))

\* groq.ts: the set of the lower-cased tags, normalised, the canonical ones kept
extractHashtagsFallback(matches) ==
    OnlyCanonical(MapSeq(normalizeToCanonical, Dedupe(MapSeq(toLowerCase, matches))))

\* the replies of the model: none (no key, an error), or a JSON with topics and
\* with a content that keeps the hashtags of the text
GroqReplies ==
    {[ok |-> FALSE, topics |-> <<>>]} \cup
    {[ok |-> TRUE, topics |-> tp] : tp \in {<<>>, <<"tech">>, <<"AI", "tech">>, <<"pizza">>}}

\* rewriteWithGroq(userText).topics for a reply
rewriteWithGroq(userText, reply) ==
    LET topics == OnlyCanonical(MapSeq(normalizeToCanonical,
                                       MapSeq(StripHash, MapSeq(toLowerCase, reply.topics))))
        uniqueTopics == Dedupe(topics)
    IN  IF ~reply.ok THEN extractHashtagsFallback(userText)
        ELSE IF uniqueTopics = <<>> THEN extractHashtagsFallback(userText)
        ELSE uniqueTopics

\* normalizeToCanonical of every hashtag of the text, and of its result; the
\* result for an inherited key is a function, which has no toLowerCase
normalizeTags ==
    /\ text # <<>>
    /\ normalized = <<>>
    /\ normalized' =
          [i \in DOMAIN text |->
              LET once == normalizeToCanonical(text[i])
              IN  [once |-> once,
                   twice |-> IF once = ObjectFunction THEN "TypeError"
                             ELSE normalizeToCanonical(once)]]
    /\ UNCHANGED <<storeVars, attractions, requests, transfer, applies, decays, post,
                   clicks, loopVars, rankVars, text, created, pageVars, lastVars>>

\* runBot inserts the post of a template
runBotPost ==
    /\ text \in BotTemplates
    /\ created' = created \cup {[by |-> "runBot", topic_tags |-> topicTags(text)]}
    /\ UNCHANGED <<storeVars, attractions, requests, transfer, applies, decays, post,
                   clicks, loopVars, rankVars, text, normalized, pageVars, lastVars>>

\* ComposePost.handleSubmit inserts the text of the user
composePost ==
    /\ created' = created \cup
                     {[by |-> "ComposePost", topic_tags |-> extractHashtags(text)]}
    /\ UNCHANGED <<storeVars, attractions, requests, transfer, applies, decays, post,
                   clicks, loopVars, rankVars, text, normalized, pageVars, lastVars>>

\* a post gets the topics of rewriteWithGroq
rewritePost(reply) ==
    /\ created' = created \cup
                     {[by |-> "rewriteWithGroq",
                       topic_tags |-> rewriteWithGroq(text, reply)]}
    /\ UNCHANGED <<storeVars, attractions, requests, transfer, applies, decays, post,
                   clicks, loopVars, rankVars, text, normalized, pageVars, lastVars>>

InitPosts ==
    /\ attractionGraph = EmptyMap
    /\ pendingWrites = EmptyMap
    /\ flushTimeout = FALSE
    /\ flushTimers = 0
    /\ attractions = {}
    /\ requests = {}
    /\ transfer = Idle
    /\ applies = 0
    /\ decays = 0
    /\ post = [p \in Posts |-> PostIdle(FALSE)]
    /\ clicks = 0
    /\ LoopInit
    /\ RankInit
    /\ PageInit
    /\ LastInit
    /\ text \in Texts
    /\ normalized = <<>>
    /\ created = {}

NextPosts ==
    \/ normalizeTags
    \/ runBotPost
    \/ composePost
    \/ \E reply \in GroqReplies : rewritePost(reply)

SpecPosts == InitPosts /\ [][NextPosts]_vars

\* ------------------------------------------------ the graph page (Graph.tsx)
\* TOPIC_TO_CLUSTER
TOPIC_TO_CLUSTER ==
    [workout |-> "fitness", gym |-> "fitness", gains |-> "fitness",
     motivation |-> "fitness",
     ai |-> "tech", coding |-> "tech", programming |-> "tech", innovation |-> "tech",
     bitcoin |-> "crypto", blockchain |-> "crypto", defi |-> "crypto", hodl |-> "crypto",
     progressive |-> "politics", conservative |-> "politics", justice |-> "politics",
     values |-> "politics",
     environment |-> "climate", sustainability |-> "climate", green |-> "climate",
     esports |-> "gaming", games |-> "gaming", streaming |-> "gaming",
     recipe |-> "food", cooking |-> "food", foodie |-> "food",
     meditation |-> "wellness", mindfulness |-> "wellness", peace |-> "wellness",
     truth |-> "conspiracy", wakeup |-> "conspiracy", research |-> "conspiracy"]

\* TOPIC_TO_CLUSTER[lower] || lower
normalize(t) ==
    LET lower == StripHash(toLowerCase(t))
    IN  IF lower \in DOMAIN TOPIC_TO_CLUSTER THEN TOPIC_TO_CLUSTER[lower]
        ELSE IF lower \in InheritedKeys THEN ObjectFunction
        ELSE lower

\* the users the page shows and the posts they can like, with the topic_tags
\* the posts were stored with
GraphUsers == {"u1"}
GraphPosts == {"g1", "g2", "g3", "g4"}
graphTags(p) ==
    CASE p = "g1" -> <<"ai", "tech">>
      [] p = "g2" -> <<"food">>
      [] p = "g3" -> <<"recipe", "cooking">>
      [] OTHER -> <<"pizza">>

\* a Map of cluster to count is the sequence of its entries in insertion order
\* m.set(k, (m.get(k) || 0) + 1)
Bump(m, k) ==
    IF \E i \in DOMAIN m : m[i].cluster = k
    THEN [i \in DOMAIN m |-> IF m[i].cluster = k
                             THEN [cluster |-> k, count |-> m[i].count + 1]
                             ELSE m[i]]
    ELSE Append(m, [cluster |-> k, count |-> 1])

\* tags.forEach(t => { const k = normalize(t); m.set(k, (m.get(k) || 0) + 1) })
RECURSIVE BumpTags(_, _)
BumpTags(m, tags) ==
    IF tags = <<>> THEN m ELSE BumpTags(Bump(m, normalize(Head(tags))), Tail(tags))

\* profile.forEach((count, cluster) => { if (count > maxCount) {...} }), from
\* maxCluster = 'neutral', maxCount = 0
RECURSIVE MaxEntry(_, _)
MaxEntry(m, best) ==
    IF m = <<>> THEN best
    ELSE MaxEntry(Tail(m), IF Head(m).count > best.count THEN Head(m) ELSE best)

maxCluster(m) == MaxEntry(m, [cluster |-> "neutral", count |-> 0]).cluster

\* the Map of an id, or none
ProfileOf(profiles, id) == IF id \in DOMAIN profiles THEN profiles[id] ELSE <<>>

\* likes.forEach(l => ...): the profiles of the rows of the likes select
RECURSIVE Profiles(_, _)
Profiles(rows, acc) ==
    IF rows = <<>> THEN acc
    ELSE LET l == Head(rows)
         IN  Profiles(Tail(rows),
                      MapSet(acc, l[1], BumpTags(ProfileOf(acc, l[1]), graphTags(l[2]))))

\* the orders in which a select without ORDER BY can return the rows of a table
Orders(table) == {s \in [1..Cardinality(table) -> table] : Range(s) = table}

\* a row is inserted into likes, and the publication supabase_realtime sends
\* the INSERT to the channel of the page
likeInserted(u, p) ==
    /\ clicks < MaxReactions
    /\ <<u, p>> \notin likes
    /\ likes' = likes \cup {<<u, p>>}
    /\ events' = events \cup {<<u, p>>}
    /\ clicks' = clicks + 1
    /\ UNCHANGED <<storeVars, attractions, requests, transfer, applies, decays, post,
                   timerVars, activeDrifters, users, taskVars, ticks, historyVars,
                   rankVars, tagVars, topicsRef, nodes,
                   lastVars>>

\* a row is deleted from likes (an unlike); the page listens to no DELETE
likeDeleted(u, p) ==
    /\ clicks < MaxReactions
    /\ <<u, p>> \in likes
    /\ likes' = likes \ {<<u, p>>}
    /\ clicks' = clicks + 1
    /\ UNCHANGED <<storeVars, attractions, requests, transfer, applies, decays, post,
                   timerVars, activeDrifters, users, taskVars, ticks, historyVars,
                   rankVars, tagVars, pageVars, lastVars>>

\* fetchGraphData: at the mount, every 8 s, and at a change of users
fetchGraphData(rows) ==
    /\ rows \in Orders(likes)
    /\ LET profiles == Profiles(rows, EmptyMap)
       IN  /\ topicsRef' = profiles
           /\ nodes' = [u \in {x \in DOMAIN users : users[x] # "expired"} |->
                           maxCluster(ProfileOf(profiles, u))]
    /\ UNCHANGED <<storeVars, attractions, requests, transfer, applies, decays, post,
                   clicks, loopVars, rankVars, tagVars, events, lastVars>>

\* the handler of an INSERT on likes: the topic map of the user and the
\* cluster of the node are updated live
onLikeInsert(e) ==
    /\ e \in events
    /\ events' = events \ {e}
    /\ LET m == BumpTags(ProfileOf(topicsRef, e[1]), graphTags(e[2]))
       IN  /\ topicsRef' = MapSet(topicsRef, e[1], m)
           /\ nodes' = IF e[1] \in DOMAIN nodes
                       THEN [nodes EXCEPT ![e[1]] = maxCluster(m)]
                       ELSE nodes
    /\ UNCHANGED <<storeVars, attractions, requests, transfer, applies, decays, post,
                   clicks, loopVars, rankVars, tagVars, lastVars>>

InitGraph ==
    /\ attractionGraph = EmptyMap
    /\ pendingWrites = EmptyMap
    /\ flushTimeout = FALSE
    /\ flushTimers = 0
    /\ attractions = {}
    /\ requests = {}
    /\ transfer = Idle
    /\ applies = 0
    /\ decays = 0
    /\ post = [p \in Posts |-> PostIdle(FALSE)]
    /\ clicks = 0
    /\ botInterval = FALSE
    /\ drifterSpawnInterval = FALSE
    /\ drifterLikeInterval = FALSE
    /\ cleanupInterval = FALSE
    /\ decayInterval = FALSE
    /\ activeDrifters = {}
    /\ users = [u \in GraphUsers |-> "permanent"]
    /\ likes = {}
    /\ init = NoTask
    /\ bot = NoTask
    /\ cleanup = NoTask
    /\ spawn = NoTask
    /\ like = NoTask
    /\ ticks = 0
    /\ stopped = FALSE
    /\ purged = {}
    /\ dirtyAtStop = EmptyMap
    /\ dropped = FALSE
    /\ RankInit
    /\ MoreInit

NextGraph ==
    \/ \E u \in GraphUsers, p \in GraphPosts : likeInserted(u, p)
    \/ \E u \in GraphUsers, p \in GraphPosts : likeDeleted(u, p)
    \/ \E rows \in Orders(likes) : fetchGraphData(rows)
    \/ \E e \in events : onLikeInsert(e)

SpecGraph == InitGraph /\ [][NextGraph]_vars

\* ------------------------------------------------------------------ properties
\* the weight of edge (s, t) in a graph, 0 when the edge is absent
EdgeWeight(graph, s, t) == GetOr0(SnapshotOf(graph, s), t)
HasEdge(graph, s, t) == t \in DOMAIN SnapshotOf(graph, s)
SameEdge(g1, g2, s, t) ==
    /\ HasEdge(g1, s, t) <=> HasEdge(g2, s, t)
    /\ EdgeWeight(g1, s, t) = EdgeWeight(g2, s, t)

\* every weight of the model is exact: a whole number of units that no decay
\* of the run had to round
WeightsExact ==
    \A a \in DOMAIN attractionGraph : \A t \in DOMAIN attractionGraph[a] :
        attractionGraph[a][t] % (32 ^ (MaxDecays - decays)) = 0

\* C1: updateAttraction(a, t, +w) leaves the snapshot of a with weight
\* previous + w for t (previous is 0 for an absent edge), a snapshot read right
\* after the call shows it, and every other edge of every actor is unchanged.
C1_ApplyAddsDelta ==
    [][\A s \in Actors, t \in Targets, d \in Deltas :
          updateAttraction(s, t, d) =>
             /\ HasEdge(attractionGraph', s, t)
             /\ SnapshotOf(attractionGraph', s)[t] =
                   EdgeWeight(attractionGraph, s, t) + d * Unit
             /\ \A s2 \in Actors, t2 \in Targets :
                   <<s2, t2>> # <<s, t>> =>
                      SameEdge(attractionGraph, attractionGraph', s2, t2)]_vars

\* an edge that two calls built up, 1.0 + 2.0
C1_Witness ==
    /\ applies = 2
    /\ EdgeWeight(attractionGraph, "u1", Topic("tech")) = 3 * Unit

\* C4: decayAttraction(a, f) replaces every weight w of a by w*f, removes
\* exactly the edges with w*f < 0.05, never raises a weight or makes one
\* negative, and leaves the edges of every other actor unchanged.
C4_DecayScales ==
    [][\A a \in Actors, f \in Factors :
          decayAttraction(a, f) =>
             /\ \A t \in Targets :
                   LET w == EdgeWeight(attractionGraph, a, t)
                       w2 == EdgeWeight(attractionGraph', a, t)
                   IN  IF HasEdge(attractionGraph, a, t)
                          /\ ~(w * f[1] * FloorDen < Unit * f[2])
                       THEN /\ HasEdge(attractionGraph', a, t)
                            /\ w2 * f[2] = w * f[1]
                            /\ w2 <= w
                            /\ w2 >= 0
                       ELSE ~HasEdge(attractionGraph', a, t)
             /\ \A b \in Actors \ {a}, t \in Targets :
                   SameEdge(attractionGraph, attractionGraph', b, t)]_vars

\* decay emptied the profile of u1 and halved the 1.0 of demo-1
C4_Witness ==
    /\ "u1" \in DOMAIN attractionGraph
    /\ DOMAIN attractionGraph["u1"] = {}
    /\ HasEdge(attractionGraph, "demo-1", Topic("tech"))
    /\ 2 * EdgeWeight(attractionGraph, "demo-1", Topic("tech")) = Unit

\* C9: no entry of pendingWrites, no row of a batch in flight and no stored
\* row has a demo id for source.
C9_NoDemoRow ==
    /\ \A k \in DOMAIN pendingWrites : k[1] \notin DemoIds
    /\ \A q \in requests : \A r \in q.rows : r.source_id \notin DemoIds
    /\ \A r \in attractions : r.source_id \notin DemoIds

\* a demo actor with a decayed edge while a flush batch is in flight
C9_Witness ==
    /\ \E t \in Targets : HasEdge(attractionGraph, "demo-1", t)
                          /\ EdgeWeight(attractionGraph, "demo-1", t) < Unit
    /\ \E q \in requests : q.by = "flush"

\* C10: sending a flush batch to the table twice leaves the rows that
\* sending it once leaves, each key of the batch holding the weight sent.
C10_FlushIdempotent ==
    \A q \in requests :
        q.by = "flush" =>
            LET once == Upsert(attractions, q.rows)
                twice == Upsert(once, q.rows)
            IN  /\ twice = once
                /\ \A b \in q.rows : \A r \in twice :
                      RowKey(r) = RowKey(b) => r.weight = b.weight

\* a batch in flight with a row whose key is stored with another weight
C10_Witness ==
    \E q \in requests :
        /\ q.by = "flush"
        /\ \E b \in q.rows : \E r \in attractions :
              RowKey(r) = RowKey(b) /\ r.weight # b.weight

\* C6: a transfer from an oldId that has an edge installs at newId exactly the
\* targets and weights of oldId (and sends those rows for newId to the table),
\* and when the call completes oldId is gone from the graph while newId keeps
\* what it holds.
C6_TransferMovesEdges ==
    [][/\ \A o \in DemoIds, n \in RealIds :
             (transferDemoAttractions(o, n) /\ DOMAIN getUserAttractions(o) # {}) =>
                /\ SnapshotOf(attractionGraph', n) = SnapshotOf(attractionGraph, o)
                /\ requests' \ requests =
                      {[by |-> "transfer",
                        rows |-> {Row(n, t, EdgeWeight(attractionGraph, o, t)) :
                                    t \in DOMAIN SnapshotOf(attractionGraph, o)}]}
       /\ transferResume =>
             /\ DOMAIN SnapshotOf(attractionGraph', transfer.old) = {}
             /\ SnapshotOf(attractionGraph', transfer.new) =
                   SnapshotOf(attractionGraph, transfer.new)]_vars

\* the transfer of demo-1 with {topic:tech: 3} to u1 has completed
C6_Witness ==
    /\ transfer.pc = "done"
    /\ DOMAIN SnapshotOf(attractionGraph, "demo-1") = {}
    /\ DOMAIN SnapshotOf(attractionGraph, "u1") = {Topic("tech")}
    /\ EdgeWeight(attractionGraph, "u1", Topic("tech")) = 3 * Unit

\* C7: between the start and the end of a transfer no state has the moved
\* edges at both oldId and newId.
C7_TransferAtomic ==
    transfer.pc \in {"awaiting", "responded"} =>
        ~(/\ DOMAIN SnapshotOf(attractionGraph, transfer.old) # {}
          /\ \A t \in DOMAIN SnapshotOf(attractionGraph, transfer.old) :
                HasEdge(attractionGraph, transfer.new, t))

\* C8: a transfer from a source that is unknown or has no edge changes neither
\* the graph, nor pendingWrites, nor the table, and issues no write.
C8_EmptyTransferNoop ==
    [][\A o \in DemoIds, n \in RealIds :
          (transferDemoAttractions(o, n) /\ DOMAIN getUserAttractions(o) = {}) =>
             /\ UNCHANGED <<attractionGraph, pendingWrites, flushTimeout, flushTimers,
                            attractions, requests>>
             /\ transfer'.pc = "noop"]_vars

\* a second call after a completed transfer returned, u1 holding the edges
C8_Witness ==
    /\ transfer.pc = "noop"
    /\ transfer.n = 1
    /\ DOMAIN SnapshotOf(attractionGraph, "u1") # {}

\* C2: every edge of the graph and every row of the table has a weight above
\* the floor 0.05 (and so above 0).
C2_AboveFloor ==
    /\ \A a \in DOMAIN attractionGraph : \A t \in DOMAIN attractionGraph[a] :
          attractionGraph[a][t] * FloorDen > Unit
    /\ \A r \in attractions : r.weight * FloorDen > Unit

\* C3: once two likes of the session user on the two posts, which share the
\* topic tech, are both processed and nothing else wrote the row, the stored
\* weight of (user, topic:tech) is the initial 0 plus both deltas.
C3_NoLostLike ==
    (/\ applies = 0
     /\ clicks = 2
     /\ \A p \in Posts : post[p].pc = "idle" /\ post[p].last = "liked")
    => \E r \in attractions :
          /\ RowKey(r) = <<SessionUser, Topic("tech")>>
          /\ r.weight = 2 * Unit

\* C5: with decay calls only, every actor ends with an empty snapshot after
\* finitely many calls, and keeps it.
C5_DecayConverges ==
    <>[](\A a \in Actors : DOMAIN SnapshotOf(attractionGraph, a) = {})

\* both actors had edges and the sweep removed them all
C5_Witness ==
    \A a \in Actors : a \in DOMAIN attractionGraph /\ DOMAIN attractionGraph[a] = {}

\* C11: once nothing is dirty, no flush is armed and no upsert is in flight, so
\* that every flush due after a decay has run and was served, the table holds
\* no row for an edge the graph no longer has: the row of an edge that decay
\* removed is deleted, and a reload cannot bring the edge back.
C11_DecayedRowDeleted ==
    (/\ DOMAIN pendingWrites = {}
     /\ ~flushTimeout
     /\ requests = {})
    => \A r \in attractions : HasEdge(attractionGraph, r.source_id, r.target_id)

\* C14: when the upsert of a flush batch fails, every edge of the batch that
\* still has the weight that was sent is dirty again, and the graph is as it
\* was.
C14_FailedFlushRetried ==
    [][\A q \in requests :
          (q.by = "flush" /\ DbUpsert(q, FALSE)) =>
              /\ attractionGraph' = attractionGraph
              /\ \A r \in q.rows :
                    EdgeWeight(attractionGraph, r.source_id, r.target_id) = r.weight
                        => RowKey(r) \in DOMAIN pendingWrites']_vars

\* the candidates of the last ranking, and whether one has a topic of positive
\* weight in the snapshot the ranking read
RankedCandidates == NotOwn(candidates, viewer)
Matching(p) ==
    \E i \in DOMAIN p.topic_tags :
        GetOr0(ranked.attraction, Topic(normalizeToCanonical(p.topic_tags[i]))) > 0
CandidateOf(r) == CHOOSE p \in Range(RankedCandidates) : p.id = r.id

\* C19: a ranking for an empty snapshot returns the candidates in their input
\* order, each with affinity 1.
C19_ColdStart ==
    (ranked.done /\ DOMAIN ranked.attraction = {}) =>
        /\ Len(ranked.out) = Len(RankedCandidates)
        /\ \A i \in DOMAIN ranked.out :
              /\ ranked.out[i].id = RankedCandidates[i].id
              /\ ranked.out[i].topic_tags = RankedCandidates[i].topic_tags
              /\ ranked.out[i].affinity = AffinityDen(RankedCandidates, ranked.attraction)

\* a ranking of two candidates for a viewer whose edges decay removed
C19_Witness ==
    /\ ranked.done
    /\ DOMAIN ranked.attraction = {}
    /\ viewer \in DOMAIN attractionGraph
    /\ Len(ranked.out) = 2

\* C20: a ranking for a non-empty snapshot returns every candidate once, gives
\* each matching candidate an affinity in [0.6, 1], each other candidate an
\* affinity that is at least 0.05 and under that of every matching candidate,
\* and puts every matching candidate before every other one.
C20_MatchingFirst ==
    (ranked.done /\ DOMAIN ranked.attraction # {}) =>
        LET den == AffinityDen(RankedCandidates, ranked.attraction)
            out == ranked.out
        IN  /\ Len(out) = Len(RankedCandidates)
            /\ {out[i].id : i \in DOMAIN out} = {p.id : p \in Range(RankedCandidates)}
            /\ \A i \in DOMAIN out :
                  IF Matching(CandidateOf(out[i]))
                  THEN 5 * out[i].affinity >= 3 * den /\ out[i].affinity <= den
                  ELSE /\ 20 * out[i].affinity >= den
                       /\ out[i].affinity > 0
                       /\ \A j \in DOMAIN out :
                             Matching(CandidateOf(out[j])) =>
                                 j < i /\ out[i].affinity < out[j].affinity

\* a ranking that put a matching candidate before one that does not match,
\* which came first in the input, for a snapshot heavy enough for the floor
C20_Witness ==
    /\ ranked.done
    /\ DOMAIN ranked.attraction # {}
    /\ Len(ranked.out) = 2
    /\ Matching(CandidateOf(ranked.out[1]))
    /\ ~Matching(CandidateOf(ranked.out[2]))
    /\ RankedCandidates[1].id = ranked.out[2].id
    /\ 10 * ranked.out[2].affinity = AffinityDen(RankedCandidates, ranked.attraction)

\* C16: when initializeAttractionGraph completes after a successful read of
\* the attractions table, every row read is an edge of the graph with the weight
\* of the row, and the graph has no other edge except the seed of 3.0 toward the
\* hashtags of a persona that had no row.
C16_Rehydrated ==
    (init.pc = "done" /\ init.ok) =>
        /\ \A r \in init.rows :
              /\ HasEdge(attractionGraph, r.source_id, r.target_id)
              /\ EdgeWeight(attractionGraph, r.source_id, r.target_id) = r.weight
        /\ \A s \in DOMAIN attractionGraph : \A t \in DOMAIN attractionGraph[s] :
              \/ \E r \in init.rows : RowKey(r) = <<s, t>>
              \/ /\ s \in BotIds
                 /\ \A r \in init.rows : r.source_id # s
                 /\ t \in {Topic(h) : h \in Range(hashtags(s))}
                 /\ attractionGraph[s][t] = 3 * Unit

\* C12: once stopBotLoop has returned, no timer of the loop is armed: not the
\* timeout of the bot cycle, not one of the four intervals, not the flush
\* timeout, whatever was in flight when it was called.
C12_ShutdownStopsTasks ==
    stopped =>
        /\ ~botInterval
        /\ ~drifterSpawnInterval
        /\ ~drifterLikeInterval
        /\ ~cleanupInterval
        /\ ~decayInterval
        /\ ~flushTimeout

\* C13: once stopBotLoop has been called and every upsert has returned, each
\* edge that was dirty at the call has its row, with the weight the graph had
\* for it at the call.
C13_NoDirtyEdgeLost ==
    (stopped /\ requests = {} /\ DOMAIN pendingWrites = {}) =>
        \A k \in DOMAIN dirtyAtStop :
            Row(k[1], k[2], dirtyAtStop[k]) \in attractions

\* C17: an actor that cleanupExpiredDrifters removed has no edge in the graph
\* and no entry in pendingWrites, in the state after the removal and in every
\* later one.
C17_PurgeComplete ==
    \A d \in purged :
        /\ DOMAIN SnapshotOf(attractionGraph, d) = {}
        /\ \A k \in DOMAIN pendingWrites : k[1] # d

\* the step leaves the actor with the profile it had in `before` and with no
\* dirty entry that was not dirty in `before`
ActorUntouched(a, before) ==
    /\ SnapshotOf(attractionGraph', a) = SnapshotOf(before.graph, a)
    /\ \A k \in DOMAIN pendingWrites' :
          k[1] = a => /\ k \in DOMAIN before.pending
                      /\ pendingWrites'[k] = before.pending[k]

\* C18: when the post insert of runBot or the like upsert of runDrifterLike
\* returns an error, the actor has the edge weights and the dirty entries it
\* had when the handler was called.
C18_DroppedNoMutation ==
    [][/\ (bot.pc = "insert" /\ bot'.pc = "idle") =>
              \A b \in BotIds : ActorUntouched(b, bot.before)
       /\ (like.pc = "upsert" /\ like'.error) =>
              ActorUntouched(like.drifterId, like.before)]_vars

\* the weights a like of the page can leave in a row
FeedWeights == {k * Unit : k \in 1..MaxClicks}

\* C15: when the row (u1, topic:tech) is written with weight w by a writer
\* that is not the flush of the graph and keeps that weight from then on, the
\* graph comes to hold weight w for the edge (u1, topic:tech).
C15_ExternalWriteMerged ==
    \A w \in FeedWeights :
        <>[](Row(SessionUser, Topic("tech"), w) \in attractions)
            => <>(EdgeWeight(attractionGraph, SessionUser, Topic("tech")) = w)

\* the place of a ranked item in the list the ranking was asked for
InputIndex(id) == CHOOSE k \in DOMAIN candidates : candidates[k].id = id

\* C21: the list a ranking returns is in descending order of affinity, and two
\* items of equal affinity are in the order they had in the input.
C21_SortedStable ==
    ranked.done =>
        \A i, j \in DOMAIN ranked.out :
            i < j =>
                /\ ranked.out[i].affinity >= ranked.out[j].affinity
                /\ ranked.out[i].affinity = ranked.out[j].affinity
                      => InputIndex(ranked.out[i].id) < InputIndex(ranked.out[j].id)

\* a ranking for a non-empty snapshot of two candidates of equal affinity
C21_Witness ==
    /\ ranked.done
    /\ DOMAIN ranked.attraction # {}
    /\ Len(ranked.out) = 2
    /\ ranked.out[1].affinity = ranked.out[2].affinity

\* C22: the list a ranking returns holds every candidate that the viewer did
\* not author exactly once, and no item the viewer authored.
C22_NothingHidden ==
    ranked.done =>
        LET others == {k \in DOMAIN candidates : candidates[k].user_id # viewer}
        IN  /\ Len(ranked.out) = Cardinality(others)
            /\ {ranked.out[i].id : i \in DOMAIN ranked.out}
                   = {candidates[k].id : k \in others}
            /\ \A i \in DOMAIN ranked.out :
                  ranked.out[i].topic_tags = candidates[InputIndex(ranked.out[i].id)].topic_tags

\* a ranking, for a snapshot heavy enough for the floor, of a list with a post
\* of the viewer and a post that matches no edge
C22_Witness ==
    /\ ranked.done
    /\ DOMAIN ranked.attraction # {}
    /\ Len(candidates) = 2
    /\ \E k \in DOMAIN candidates : candidates[k].user_id = viewer
    /\ Len(ranked.out) = 1
    /\ 10 * ranked.out[1].affinity = AffinityDen(RankedCandidates, ranked.attraction)

\* C28: normalizeToCanonical gives the canonical topic of every tag of the
\* synonym table whatever its letter case, gives any other tag lower-cased,
\* gives each canonical topic itself, and gives its own results unchanged.
C28_NormalizeCanonical ==
    \A i \in DOMAIN normalized :
        LET lower == toLowerCase(text[i])
            r == normalized[i]
        IN  /\ lower \in DOMAIN SynonymTable => r.once = SynonymTable[lower]
            /\ lower \notin DOMAIN SynonymTable => r.once = lower
            /\ text[i] \in CanonicalTopics => r.once = text[i]
            /\ r.twice = r.once

\* C29: the topic_tags of every post created hold canonical topics only and
\* hold none of them twice.
C29_StoredTagsCanonical ==
    \A c \in created :
        /\ \A i \in DOMAIN c.topic_tags : c.topic_tags[i] \in CanonicalTopics
        /\ \A i, j \in DOMAIN c.topic_tags : i # j => c.topic_tags[i] # c.topic_tags[j]

\* the entries of a topic map that are canonical topics
CanonicalEntries(m) == SelectSeq(m, LAMBDA en : en.cluster \in CanonicalTopics)

\* C23: for an actor with at least two canonical-topic entries the label changes
\* to a topic X only when X is the top-weighted topic and its weight is at
\* least 1.8 times (9/5 of) every other weight; otherwise the label stays
C23_DominanceNeeded ==
    [][\A u \in (DOMAIN nodes) \cap (DOMAIN nodes') :
          LET m == CanonicalEntries(ProfileOf(topicsRef', u))
          IN  (nodes'[u] # nodes[u] /\ Len(m) >= 2)
                 => \E i \in DOMAIN m :
                       /\ m[i].cluster = nodes'[u]
                       /\ \A j \in (DOMAIN m) \ {i} : 5 * m[i].count >= 9 * m[j].count]_vars

\* C24: a label that is a topic is never demoted to neutral while the actor
\* exists, whatever likes, unlikes, realtime updates and refreshes follow
C24_NeverDemoted ==
    [][\A u \in (DOMAIN nodes) \cap (DOMAIN nodes') :
          nodes[u] # "neutral" => nodes'[u] # "neutral"]_vars

\* C25: the cluster label of every actor is neutral or one of the nine
\* canonical topics
C25_LabelCanonical ==
    \A u \in DOMAIN nodes : nodes[u] \in CanonicalTopics \cup {"neutral"}

\* C26: a like raises the edge of the actor to each canonical topic of the post
\* by exactly 1.0, also when several tags of the post normalise to the same
\* topic, and changes no other edge of any actor
C26_LikeAddsOne ==
    [][(like.pc = "upsert" /\ like'.pc = "decay" /\ ~like'.error) =>
          LET topics == Range(Canonical(TagsOfPost(like.chosen)))
              sources == (DOMAIN attractionGraph) \cup (DOMAIN attractionGraph')
              targets == UNION {DOMAIN SnapshotOf(attractionGraph, a) \cup
                                DOMAIN SnapshotOf(attractionGraph', a) : a \in sources}
          IN  /\ \A t \in topics :
                    EdgeWeight(attractionGraph', like.drifterId, Topic(t))
                       = EdgeWeight(attractionGraph, like.drifterId, Topic(t)) + Unit
              /\ \A a \in sources, tg \in targets :
                    (a # like.drifterId \/ tg \notin {Topic(t) : t \in topics})
                       => SameEdge(attractionGraph, attractionGraph', a, tg)]_vars

\* C27: once the topic edge of a persona is seeded, a step of runBot (the seeding
\* and the post it authors) leaves the topic weights of the persona unchanged:
\* the weight does not grow with the posts, and the seed is not applied again
C27_ReinforcedOnce ==
    [][\A b \in BotIds :
          (bot.pc \in {"bots", "insert"} /\ bot'.pc \in {"insert", "like"}
              /\ ~needsSeeding(attractionGraph, b))
             => SnapshotOf(attractionGraph', b) = SnapshotOf(attractionGraph, b)]_vars

\* the part of C27 on the seed alone: runBot does not seed a persona whose
\* anchor edges exist
SeedNotRepeated ==
    [][\A b \in BotIds :
          (bot.pc = "bots" /\ bot'.pc = "insert" /\ ~needsSeeding(attractionGraph, b))
             => SnapshotOf(attractionGraph', b) = SnapshotOf(attractionGraph, b)]_vars

\* the keys of the edges of durable actors that a step changed and kept
ChangedEdges ==
    {k \in UNION {{<<a, t>> : t \in DOMAIN SnapshotOf(attractionGraph', a)} :
                      a \in DOMAIN attractionGraph'} :
        ~isDemoUser(k[1]) /\ ~SameEdge(attractionGraph, attractionGraph', k[1], k[2])}

\* C30: every apply or decay that changes an edge of a durable actor marks the
\* edge dirty; a dirty entry is an edge of the memory with its latest weight;
\* and a flush batch has exactly one row per dirty key with that weight
C30_DirtyIsLatest ==
    [][/\ \A k \in ChangedEdges :
             /\ k \in DOMAIN pendingWrites'
             /\ pendingWrites'[k] = EdgeWeight(attractionGraph', k[1], k[2])
       /\ \A k \in DOMAIN pendingWrites :
             /\ HasEdge(attractionGraph, k[1], k[2])
             /\ pendingWrites[k] = EdgeWeight(attractionGraph, k[1], k[2])
       /\ \A q \in requests' \ requests :
             q.by = "flush" =>
                /\ q.rows = {Row(k[1], k[2], EdgeWeight(attractionGraph, k[1], k[2])) :
                                k \in DOMAIN pendingWrites}
                /\ Cardinality(q.rows) = Cardinality(DOMAIN pendingWrites)]_vars

\* C31: at most one flush timer is armed, and it is the one flushTimeout
\* records; whenever pendingWrites holds an edge of a durable actor the timer
\* is armed, so the edge is handed to the flush that the timer runs
C31_FlushDebounced ==
    /\ flushTimers <= 1
    /\ flushTimers = (IF flushTimeout THEN 1 ELSE 0)
    /\ (\E k \in DOMAIN pendingWrites : ~isDemoUser(k[1])) => flushTimeout

\* two applies and a decay fell into one debounce window
C31_Witness ==
    /\ applies >= 2
    /\ decays >= 1
    /\ pendingWrites # EmptyMap
    /\ flushTimers = 1
    /\ requests = {}

\* C32: every return of a runBot cycle, a failed one included, sets the timeout
\* of the next cycle, which can fire; and once the upsert of a flush has failed,
\* an apply or decay that makes an edge dirty arms a flush timer, which can fire
C32_NoHalt ==
    [][/\ (bot.pc # "idle" /\ bot'.pc = "idle")
             => (botInterval' /\ timers'.bot = timers.bot + 1)
       /\ (timers.bot > 0 /\ bot.pc = "idle" /\ ticks < MaxTicks) => ENABLED botTimer
       /\ (flushFailed' /\ pendingWrites' # EmptyMap)
             => (flushTimeout' /\ flushTimers' = 1)
       /\ (flushTimeout /\ \A q \in requests : q.by # "flush")
             => ENABLED flushAttractionUpdates]_vars

\* the insert of the first cycle of the bot failed and the upsert of the flush
\* of its seed of 5.0 failed; the second cycle posted, and the flush after it
\* wrote the weight 7.0
C32_Witness ==
    /\ dropped
    /\ flushFailed
    /\ DOMAIN users = {}
    /\ requests = {}
    /\ pendingWrites = EmptyMap
    /\ \E b \in BotIds :
          /\ EdgeWeight(attractionGraph, b, Topic("tech")) = 7 * Unit
          /\ attractions = {Row(b, Topic("tech"), 7 * Unit)}

\* the weights of the snapshot of a ranking on the scale of the ranking, their
\* largest value and min(total / 3, 1) as a number of units of 1 / (3 * RankOne)
SnapshotWeights == Scaled(ranked.attraction)
SnapshotMax == MaxOfValues(SnapshotWeights, DOMAIN SnapshotWeights, 0)
SnapshotEcho ==
    Min(SumOfValues(SnapshotWeights, DOMAIN SnapshotWeights), 3 * RankOne(ranked.attraction))

\* the affinity of a matching result r is min(1, 0.6 + 0.4 * rawScore /
\* (most * |S|) + 0.15 * echoStrength), in units of 1 / AffinityDen and without
\* a rounding division
AffinityIs(r, most) ==
    LET a == ranked.attraction
        p == CandidateOf(r)
        den == AffinityDen(RankedCandidates, a)
        size == Len(p.topic_tags)
        rawScore == Score(a, p.topic_tags)
        fixed == (den \div 5) * 3 + (den \div (60 * RankOne(a))) * 3 * SnapshotEcho
        scaled == (den \div 5) * 2 * rawScore
    IN  IF fixed * (most * size) + scaled >= den * (most * size)
        THEN r.affinity = den
        ELSE (r.affinity - fixed) * (most * size) = scaled

\* C33: for a non-empty snapshot the affinity of every matching candidate is
\* min(1, 0.6 + 0.4 * rawScore / (maxSnapshotWeight * |S|) + 0.15 * echoStrength)
\* with echoStrength = min(totalSnapshotWeight / 3, 1), also when the largest
\* weight is below 1 and when the snapshot holds targets that are no topics
C33_AffinityFormula ==
    (ranked.done /\ ranked.attraction # EmptyMap) =>
        \A i \in DOMAIN ranked.out :
            Matching(CandidateOf(ranked.out[i])) => AffinityIs(ranked.out[i], SnapshotMax)

\* C33 as the code has it: the divisor is max(maxSnapshotWeight, 1) * |S|
C33_AffinityFloored ==
    (ranked.done /\ ranked.attraction # EmptyMap) =>
        \A i \in DOMAIN ranked.out :
            Matching(CandidateOf(ranked.out[i]))
               => AffinityIs(ranked.out[i], Max(SnapshotMax, RankOne(ranked.attraction)))

\* a ranking of a matching candidate for a snapshot whose largest weight is
\* below 1 and which holds a target that is no topic
C33_Witness ==
    /\ ranked.done
    /\ SnapshotMax < RankOne(ranked.attraction)
    /\ \E t \in DOMAIN ranked.attraction : t[1] # "topic"
    /\ \E i \in DOMAIN ranked.out : Matching(CandidateOf(ranked.out[i]))

\* the weight of the row of an edge in a table, 0 when the table has no row
RowWeight(rows, s, t) ==
    IF \E r \in rows : RowKey(r) = <<s, t>>
    THEN (CHOOSE r \in rows : RowKey(r) = <<s, t>>).weight
    ELSE 0

\* the select of the load returns with rows while the first applies since the
\* clear, the seed of runBot, are dirty and no flush has been sent: the rows
\* read are those of before the start
LoadInstalls ==
    /\ init.pc = "attractions" /\ init'.pc # "attractions" /\ init'.ok
    /\ bot.pc = "insert"
    /\ bot.before.graph = EmptyMap /\ bot.before.pending = EmptyMap
    /\ flushTimeout /\ requests = {}

\* C34: an edge applied while the select of the load was in flight holds, once
\* the rows are installed, the weight of its row plus what was applied, and
\* the dirty entry that the next flush writes is that weight, not the smaller
\* one computed from the graph that was not loaded yet
C34_StartupKeepsUpdates ==
    [][LoadInstalls =>
          \A s \in DOMAIN attractionGraph : \A t \in DOMAIN attractionGraph[s] :
              /\ EdgeWeight(attractionGraph', s, t)
                    = RowWeight(attractions, s, t) + attractionGraph[s][t]
              /\ <<s, t>> \in DOMAIN pendingWrites'
              /\ pendingWrites'[<<s, t>>] = EdgeWeight(attractionGraph', s, t)]_vars

C36_OneTimerEach ==
    \A t \in Tasks : timers[t] <= 1 /\ (timers[t] = 1 => Recorded(t))

LikedTags(u, k) ==
    Cardinality({x \in GraphPosts \X (1..MaxTags) :
                    /\ <<u, x[1]>> \in likes
                    /\ x[2] \in DOMAIN graphTags(x[1])
                    /\ normalize(graphTags(x[1])[x[2]]) = k})

\* C38: as long as no like was deleted, the count that topicsRef holds for a
\* user and a cluster is at most the tags of the liked posts of the user that
\* normalize to the cluster, whatever the order of handler and refresh
C38_NeverOverCounts ==
    Cardinality(likes) = clicks =>
        \A u \in DOMAIN topicsRef : \A i \in DOMAIN topicsRef[u] :
            topicsRef[u][i].count <= LikedTags(u, topicsRef[u][i].cluster)

\* C39: with two personas each of them is picked by selectWeightedBot again
\* and again, whatever weights the graph holds
C39_NoStarvation ==
    \A b \in {"b1", "b2"} : []<>(bot.pc = "insert" /\ bot.botId = b)

=============================================================================
